---------------------------- MODULE Spec2Model ----------------------------
(***************************************************************************)
(* A model of the halfpipe judging analysis scripts: the run classifier,   *)
(* the crash-streak scan, the judge-panel trimming and the trick           *)
(* difficulty scorer.                                                      *)
(*                                                                         *)
(* CSV fields are modelled as the strings they are.  Numbers are kept in   *)
(* hundredths (49.99 is 4999), so every comparison with the clean/wipeout  *)
(* threshold and every mean of four judge scores is exact.                 *)
(***************************************************************************)
EXTENDS Integers, Sequences, FiniteSets, TLC

VARIABLES
    rawScores,   \* the rows loaded from the judge-scores CSV (this.rawScores / baseData)
    dniMap,      \* the DNI resolution table, keyed "<competitor>-<run>"
    out,         \* what the last analysis call returned
    panel,       \* the six judge score fields of the run at hand
    panelOut,    \* what the last panel computation returned
    trickCache,  \* TrickDifficultyScorer.trickCache
    ret,         \* what the last scorer call returned
    files,       \* the file system: the content of every file that exists, by path
    exit         \* how the last script invocation ended

vars == <<rawScores, dniMap, out, panel, panelOut, trickCache, ret, files, exit>>
statusVars == <<rawScores, dniMap, out>>
panelVars == <<panel, panelOut>>
scorerVars == <<trickCache, ret>>
fileVars == <<files, exit>>

(***************************************************************************)
(* Strings, as JavaScript's String methods treat them.                     *)
(***************************************************************************)
Char(s, i) == SubSeq(s, i, i)

Digits == {"0", "1", "2", "3", "4", "5", "6", "7", "8", "9"}

DigitVal(ch) ==
    CASE ch = "0" -> 0 [] ch = "1" -> 1 [] ch = "2" -> 2 [] ch = "3" -> 3
      [] ch = "4" -> 4 [] ch = "5" -> 5 [] ch = "6" -> 6 [] ch = "7" -> 7
      [] ch = "8" -> 8 [] ch = "9" -> 9

\* String.prototype.includes
Includes(s, sub) ==
    \E i \in 1..(Len(s) - Len(sub) + 1) : SubSeq(s, i, i + Len(sub) - 1) = sub

\* String.prototype.startsWith
StartsWith(s, pre) == Len(s) >= Len(pre) /\ SubSeq(s, 1, Len(pre)) = pre

\* the characters trim and the number parsers skip
WhiteSpace == {" ", "\t", "\n", "\r"}

\* the first index at or after i that holds no blank (Len(s)+1 when none)
RECURSIVE SkipBlanks(_, _)
SkipBlanks(s, i) ==
    IF i <= Len(s) /\ Char(s, i) \in WhiteSpace THEN SkipBlanks(s, i + 1) ELSE i

\* the last index at or before i that holds no blank (0 when none)
RECURSIVE SkipBlanksBack(_, _)
SkipBlanksBack(s, i) ==
    IF i >= 1 /\ Char(s, i) \in WhiteSpace THEN SkipBlanksBack(s, i - 1) ELSE i

\* String.prototype.trim
Trim(s) == SubSeq(s, SkipBlanks(s, 1), SkipBlanksBack(s, Len(s)))

\* the first index at or after i that holds no digit
RECURSIVE DigitsEnd(_, _)
DigitsEnd(s, i) ==
    IF i <= Len(s) /\ Char(s, i) \in Digits THEN DigitsEnd(s, i + 1) ELSE i

\* the value of the digits s[i..j]
RECURSIVE DigitsValue(_, _, _)
DigitsValue(s, i, j) ==
    IF j < i THEN 0 ELSE DigitsValue(s, i, j - 1) * 10 + DigitVal(Char(s, j))

\* the first index at or after start that holds sep (Len(s)+1 when none)
SepIndex(s, sep, start) ==
    IF \E i \in start..Len(s) : Char(s, i) = sep
    THEN CHOOSE i \in start..Len(s) :
             Char(s, i) = sep /\ \A j \in start..(i - 1) : Char(s, j) # sep
    ELSE Len(s) + 1

\* String.prototype.split on one separator character
RECURSIVE SplitFrom(_, _, _)
SplitFrom(s, sep, start) ==
    IF SepIndex(s, sep, start) > Len(s) THEN <<SubSeq(s, start, Len(s))>>
    ELSE <<SubSeq(s, start, SepIndex(s, sep, start) - 1)>>
         \o SplitFrom(s, sep, SepIndex(s, sep, start) + 1)

Split(s, sep) == SplitFrom(s, sep, 1)

(***************************************************************************)
(* Numbers.  A JavaScript number is [nan, val] with val in hundredths.     *)
(***************************************************************************)
NaN == [nan |-> TRUE, val |-> 0]

Num(v) == [nan |-> FALSE, val |-> v]

\* parseFloat: blanks, a sign, digits, a fraction; NaN when there is no digit.
\* Fraction digits after the second are dropped, which moves no value
\* across a whole number.
ParseFloat(s) ==
    LET a == SkipBlanks(s, 1)
        signed == a <= Len(s) /\ Char(s, a) \in {"-", "+"}
        neg == a <= Len(s) /\ Char(s, a) = "-"
        b == IF signed THEN a + 1 ELSE a
        c == DigitsEnd(s, b)
        hasDot == c <= Len(s) /\ Char(s, c) = "."
        d == IF hasDot THEN DigitsEnd(s, c + 1) ELSE c
        nInt == c - b
        nFrac == IF hasDot THEN d - (c + 1) ELSE 0
        f1 == IF nFrac >= 1 THEN DigitVal(Char(s, c + 1)) ELSE 0
        f2 == IF nFrac >= 2 THEN DigitVal(Char(s, c + 2)) ELSE 0
        mag == DigitsValue(s, b, c - 1) * 100 + f1 * 10 + f2
    IN  IF nInt + nFrac = 0 THEN NaN ELSE Num(IF neg THEN 0 - mag ELSE mag)

HexDigits == Digits \cup {"a", "b", "c", "d", "e", "f", "A", "B", "C", "D", "E", "F"}

HexDigitVal(c) ==
    CASE c \in Digits -> DigitVal(c)
      [] c \in {"a", "A"} -> 10 [] c \in {"b", "B"} -> 11 [] c \in {"c", "C"} -> 12
      [] c \in {"d", "D"} -> 13 [] c \in {"e", "E"} -> 14 [] c \in {"f", "F"} -> 15

\* the first index at or after i that holds no hexadecimal digit
RECURSIVE HexEnd(_, _)
HexEnd(s, i) ==
    IF i <= Len(s) /\ Char(s, i) \in HexDigits THEN HexEnd(s, i + 1) ELSE i

\* the value of the hexadecimal digits s[i..j]
RECURSIVE HexValue(_, _, _)
HexValue(s, i, j) ==
    IF j < i THEN 0 ELSE HexValue(s, i, j - 1) * 16 + HexDigitVal(Char(s, j))

\* the digits of parseInt from index b on: hexadecimal after 0x or 0X,
\* decimal otherwise; NaN when there is no digit
ParseDigits(s, b, neg) ==
    IF b + 1 <= Len(s) /\ Char(s, b) = "0" /\ Char(s, b + 1) \in {"x", "X"}
    THEN IF HexEnd(s, b + 2) = b + 2 THEN NaN
         ELSE Num(IF neg THEN 0 - HexValue(s, b + 2, HexEnd(s, b + 2) - 1)
                         ELSE HexValue(s, b + 2, HexEnd(s, b + 2) - 1))
    ELSE IF DigitsEnd(s, b) = b THEN NaN
         ELSE Num(IF neg THEN 0 - DigitsValue(s, b, DigitsEnd(s, b) - 1)
                         ELSE DigitsValue(s, b, DigitsEnd(s, b) - 1))

\* parseInt with no radix: blanks, a sign, digits.  The value is a plain
\* integer.
ParseInt(s) ==
    LET a == SkipBlanks(s, 1)
        signed == a <= Len(s) /\ Char(s, a) \in {"-", "+"}
        neg == a <= Len(s) /\ Char(s, a) = "-"
    IN  ParseDigits(s, IF signed THEN a + 1 ELSE a, neg)

\* a >= b on numbers: false when either is NaN
Geq(a, b) == ~a.nan /\ ~b.nan /\ a.val >= b.val

\* a < b on numbers: false when either is NaN
Less(a, b) == ~a.nan /\ ~b.nan /\ a.val < b.val

(***************************************************************************)
(* The run classifier.                                                     *)
(***************************************************************************)
\* the literal 50 of each classifier, in hundredths
JA_Threshold == 5000
RG_Threshold == 5000
IR_Threshold == 5000
PR_Threshold == 5000
MP_Threshold == 5000

\* a plausible slip: the key format of the resolver, `${competitor}-R${run}`
DniKeyResolverFormat(row) == row.competitor \o "-R" \o row.run

\* `${row.competitor}-${row.run}`
DniKey(row) == row.competitor \o "-" \o row.run

\* dniMap[key]?.dni_reason || 'dni_unknown' (the same expression in every classifier)
DniReason(map, key) ==
    IF key \in DOMAIN map /\ map[key] # "" THEN map[key] ELSE "dni_unknown"

\* JudgingAnalyzer.getRunStatus
JA_getRunStatus(row, map) ==
    IF row.final_score = "DNI" THEN DniReason(map, DniKey(row))
    ELSE IF Geq(ParseFloat(row.final_score), Num(JA_Threshold)) THEN "clean"
    ELSE "wipeout"

\* ReportGenerator.getRunStatus
RG_getRunStatus(row, map) ==
    IF row.final_score = "DNI" THEN DniReason(map, DniKey(row))
    ELSE IF Geq(ParseFloat(row.final_score), Num(RG_Threshold)) THEN "clean"
    ELSE "wipeout"

\* InteractiveReport.getRunStatus
IR_getRunStatus(row, map) ==
    IF row.final_score = "DNI" THEN DniReason(map, DniKey(row))
    ELSE IF Geq(ParseFloat(row.final_score), Num(IR_Threshold)) THEN "clean"
    ELSE "wipeout"

\* PremiumReport.getRunStatus
PR_getRunStatus(row, map) ==
    IF row.final_score = "DNI" THEN DniReason(map, DniKey(row))
    ELSE IF Geq(ParseFloat(row.final_score), Num(PR_Threshold)) THEN "clean"
    ELSE "wipeout"

\* a plausible slip: the boundary score itself counted as a wipeout
MP_runStatusExclusive(row, map) ==
    LET score == ParseFloat(row.final_score)
    IN  IF row.final_score = "DNI" THEN DniReason(map, DniKey(row))
        ELSE IF Less(Num(MP_Threshold), score) THEN "clean"
        ELSE IF ~score.nan THEN "wipeout"
        ELSE "unknown"

\* MasterDataPipeline.run: the run_status column of one row
MP_runStatus(row, map) ==
    LET score == ParseFloat(row.final_score)
    IN  IF row.final_score = "DNI" THEN DniReason(map, DniKey(row))
        ELSE IF ~score.nan /\ Geq(score, Num(MP_Threshold)) THEN "clean"
        ELSE IF ~score.nan /\ Less(score, Num(MP_Threshold)) THEN "wipeout"
        ELSE "unknown"

(***************************************************************************)
(* Idle values of the variables a specification does not use.              *)
(***************************************************************************)
NoOut == [op |-> "none"]

EmptyMap == [k \in {} |-> ""]

StatusIdle == rawScores = <<>> /\ dniMap = EmptyMap /\ out = NoOut

PanelIdle == panel = <<>> /\ panelOut = NoOut

ScorerIdle == trickCache = EmptyMap /\ ret = NoOut

FilesIdle == files = EmptyMap /\ exit = NoOut

(***************************************************************************)
(* SpecStatus: one loaded row and a resolution table, classified by each   *)
(* of the scripts.                                                         *)
(***************************************************************************)
StatusCompetitors == {"Scotty James", "Yuto Totsuka"}

StatusRuns == {"1", "2"}

\* final_score fields: scores either side of the threshold, the DNI
\* sentinel and an empty field
FinalScoreFields == {"50.0", "49.99", "50", "48.75", "93.50", "DNI", ""}

\* the dni_reason values the resolver writes to dni_resolved.csv
DniReasons == {"crash", "strategic_skip", "unknown"}

StatusRows ==
    [competitor : StatusCompetitors, run : StatusRuns, position : {"1"},
     final_score : FinalScoreFields]

StatusKeys == {c \o "-" \o r : c \in StatusCompetitors, r \in StatusRuns}

\* every resolution table over the keys: a key is absent or has a reason
DniMaps(keys, reasons) == UNION {[D -> reasons] : D \in SUBSET keys}

InitStatus ==
    /\ rawScores \in {<<r>> : r \in StatusRows}
    /\ dniMap \in DniMaps(StatusKeys, DniReasons)
    /\ out = NoOut
    /\ PanelIdle
    /\ ScorerIdle
    /\ FilesIdle

\* JudgingAnalyzer.getRunStatus(row)
JAGetRunStatus(i) ==
    /\ out' = [op |-> "JudgingAnalyzer.getRunStatus", row |-> i,
               status |-> JA_getRunStatus(rawScores[i], dniMap)]
    /\ UNCHANGED <<rawScores, dniMap, panelVars, scorerVars, fileVars>>

\* ReportGenerator.getRunStatus(row)
RGGetRunStatus(i) ==
    /\ out' = [op |-> "ReportGenerator.getRunStatus", row |-> i,
               status |-> RG_getRunStatus(rawScores[i], dniMap)]
    /\ UNCHANGED <<rawScores, dniMap, panelVars, scorerVars, fileVars>>

\* InteractiveReport.getRunStatus(row)
IRGetRunStatus(i) ==
    /\ out' = [op |-> "InteractiveReport.getRunStatus", row |-> i,
               status |-> IR_getRunStatus(rawScores[i], dniMap)]
    /\ UNCHANGED <<rawScores, dniMap, panelVars, scorerVars, fileVars>>

\* PremiumReport.getRunStatus(row)
PRGetRunStatus(i) ==
    /\ out' = [op |-> "PremiumReport.getRunStatus", row |-> i,
               status |-> PR_getRunStatus(rawScores[i], dniMap)]
    /\ UNCHANGED <<rawScores, dniMap, panelVars, scorerVars, fileVars>>

\* MasterDataPipeline.run: the run_status of every merged row
MPRun ==
    /\ out' = [op |-> "MasterDataPipeline.run",
               status |-> [i \in DOMAIN rawScores |->
                              MP_runStatus(rawScores[i], dniMap)]]
    /\ UNCHANGED <<rawScores, dniMap, panelVars, scorerVars, fileVars>>

NextStatus ==
    \/ \E i \in DOMAIN rawScores : JAGetRunStatus(i)
    \/ \E i \in DOMAIN rawScores : RGGetRunStatus(i)
    \/ \E i \in DOMAIN rawScores : IRGetRunStatus(i)
    \/ \E i \in DOMAIN rawScores : PRGetRunStatus(i)
    \/ MPRun

SpecStatus == InitStatus /\ [][NextStatus]_vars

GetRunStatusOps ==
    {"JudgingAnalyzer.getRunStatus", "ReportGenerator.getRunStatus",
     "InteractiveReport.getRunStatus", "PremiumReport.getRunStatus"}

\* the rows the last call classified, each with the status it got
Classified ==
    IF out.op \in GetRunStatusOps
    THEN {[row |-> rawScores[out.row], status |-> out.status]}
    ELSE IF out.op = "MasterDataPipeline.run"
    THEN {[row |-> rawScores[i], status |-> out.status[i]] : i \in DOMAIN rawScores}
    ELSE {}

IsNumericField(f) == f # "DNI" /\ ~ParseFloat(f).nan

\* C1: a record with a numeric final score is classified clean when the
\* score is at least 50 and wipeout otherwise, by every classifier alike;
\* 50.0 is clean and 49.99 is wipeout.
C1_ThresholdInclusive ==
    \A c \in Classified :
        /\ IsNumericField(c.row.final_score) =>
              c.status = IF ParseFloat(c.row.final_score).val >= 5000
                         THEN "clean" ELSE "wipeout"
        /\ c.row.final_score \in {"50.0", "50"} => c.status = "clean"
        /\ c.row.final_score = "49.99" => c.status = "wipeout"
        /\ c.row.final_score = "93.50" => c.status = "clean"
        /\ c.row.final_score = "48.75" => c.status = "wipeout"

\* the pipeline has classified a score of exactly 50.0 as clean
C1_Witness ==
    /\ out.op = "MasterDataPipeline.run"
    /\ \E c \in Classified : c.row.final_score = "50.0" /\ c.status = "clean"

\* C10: a DNI record gets the reason the resolution table holds for its
\* (competitor, run); with no entry it gets dni_unknown, never clean,
\* wipeout or crash.
C10_DniLookup ==
    \A c \in Classified :
        c.row.final_score = "DNI" =>
            LET key == c.row.competitor \o "-" \o c.row.run
            IN  /\ key \in DOMAIN dniMap => c.status = dniMap[key]
                /\ key \notin DOMAIN dniMap => c.status = "dni_unknown"

\* a DNI record with no entry in a non-empty table has been classified
C10_Witness ==
    /\ out.op = "JudgingAnalyzer.getRunStatus"
    /\ rawScores[out.row].final_score = "DNI"
    /\ DniKey(rawScores[out.row]) \notin DOMAIN dniMap
    /\ DOMAIN dniMap # {}
    /\ out.status = "dni_unknown"

(***************************************************************************)
(* The crash-streak scan of a round.                                       *)
(***************************************************************************)
\* round.toString()
RoundStr(n) == CASE n = 1 -> "1" [] n = 2 -> "2" [] n = 3 -> "3"

\* parseInt(row.position)
Pos(row) == ParseInt(row.position).val

\* one step of a stable sort by parseInt(a.position) - parseInt(b.position):
\* row goes after every row of the sorted prefix that is not behind it
RECURSIVE InsertByPosition(_, _)
InsertByPosition(sorted, row) ==
    IF sorted = <<>> THEN <<row>>
    ELSE IF Pos(sorted[Len(sorted)]) <= Pos(row) THEN Append(sorted, row)
    ELSE Append(InsertByPosition(SubSeq(sorted, 1, Len(sorted) - 1), row),
                sorted[Len(sorted)])

RECURSIVE SortPrefix(_, _)
SortPrefix(rows, n) ==
    IF n = 0 THEN <<>> ELSE InsertByPosition(SortPrefix(rows, n - 1), rows[n])

\* a plausible slip: the rows of a round taken in file order, not sorted
RoundRunsUnsorted(rows, round) ==
    SelectSeq(rows, LAMBDA r : r.run = RoundStr(round))

\* rows.filter(r => r.run === round.toString()).sort(by position)
RoundRuns(rows, round) ==
    LET picked == SelectSeq(rows, LAMBDA r : r.run = RoundStr(round))
    IN  SortPrefix(picked, Len(picked))

\* a plausible slip: the loaded array itself sorted by position
RowsAfterSortInPlace(rows) == SortPrefix(rows, Len(rows))

\* the loaded array after rows.filter(...).sort(...): filter builds a new
\* array and sort orders that one, so the loaded array keeps its rows and
\* their order
RowsAfterFilterSort(rows) == rows

\* status === 'wipeout' || status === 'crash'
IsCrash(status) == status = "wipeout" \/ status = "crash"

\* a plausible slip: an unresolved DNI run taken for a completed one
IsCompletedOrUnknown(status) ==
    status \in {"clean", "did_not_improve", "strategic_skip", "unknown", "dni_unknown"}

\* status === 'clean' || status === 'did_not_improve' || status === 'strategic_skip'
IsCompleted(status) ==
    status = "clean" \/ status = "did_not_improve" \/ status = "strategic_skip"

\* the counter after a record of this status
StreakAfter(streak, status) ==
    IF IsCrash(status) THEN streak + 1
    ELSE IF IsCompleted(status) THEN 0
    ELSE streak

\* name.split(' ') last part
LastName(name) == LET parts == Split(name, " ") IN parts[Len(parts)]

\* JudgingAnalyzer.buildRoundSequence: the map over the sorted rows of the
\* round from row i on, consecCrashes being the counter before row i
RECURSIVE JA_scan(_, _, _, _)
JA_scan(runs, i, consecCrashes, map) ==
    IF i > Len(runs) THEN <<>>
    ELSE LET status == JA_getRunStatus(runs[i], map)
         IN  <<[row |-> runs[i], status |-> status,
                consecCrashesBefore |-> consecCrashes]>>
             \o JA_scan(runs, i + 1, StreakAfter(consecCrashes, status), map)

JA_buildRoundSequence(rows, map, roundNum) ==
    JA_scan(RoundRuns(rows, roundNum), 1, 0, map)

\* ReportGenerator.computeCrashStreaks: the forEach over one round
RECURSIVE RG_scan(_, _, _, _, _)
RG_scan(runs, i, streak, map, round) ==
    IF i > Len(runs) THEN <<>>
    ELSE LET status == RG_getRunStatus(runs[i], map)
             pushed == IF status = "clean"
                       THEN <<[competitor |-> runs[i].competitor,
                               position |-> Pos(runs[i]), round |-> round,
                               score |-> ParseFloat(runs[i].final_score).val,
                               streak |-> streak]>>
                       ELSE <<>>
         IN  pushed \o RG_scan(runs, i + 1, StreakAfter(streak, status), map, round)

\* a plausible slip: the counter declared outside the loop over the rounds
RECURSIVE RG_scanCarry(_, _, _, _, _)
RG_scanCarry(runs, i, streak, map, round) ==
    IF i > Len(runs) THEN [pushed |-> <<>>, streak |-> streak]
    ELSE LET status == RG_getRunStatus(runs[i], map)
             rest == RG_scanCarry(runs, i + 1, StreakAfter(streak, status), map, round)
             pushed == IF status = "clean"
                       THEN <<[competitor |-> runs[i].competitor,
                               position |-> Pos(runs[i]), round |-> round,
                               score |-> ParseFloat(runs[i].final_score).val,
                               streak |-> streak]>>
                       ELSE <<>>
         IN  [pushed |-> pushed \o rest.pushed, streak |-> rest.streak]

RG_computeCrashStreaksCarry(rows, map) ==
    LET r1 == RG_scanCarry(RoundRuns(rows, 1), 1, 0, map, 1)
        r2 == RG_scanCarry(RoundRuns(rows, 2), 1, r1.streak, map, 2)
        r3 == RG_scanCarry(RoundRuns(rows, 3), 1, r2.streak, map, 3)
    IN  r1.pushed \o r2.pushed \o r3.pushed

\* ReportGenerator.computeCrashStreaks: rounds 1 to 3, the streak starting
\* at 0 in each
RG_computeCrashStreaks(rows, map) ==
    RG_scan(RoundRuns(rows, 1), 1, 0, map, 1)
    \o RG_scan(RoundRuns(rows, 2), 1, 0, map, 2)
    \o RG_scan(RoundRuns(rows, 3), 1, 0, map, 3)

\* InteractiveReport.computeReliefData: the forEach over one round
RECURSIVE IR_scan(_, _, _, _, _)
IR_scan(runs, i, streak, map, round) ==
    IF i > Len(runs) THEN <<>>
    ELSE LET status == IR_getRunStatus(runs[i], map)
             pushed == IF status = "clean"
                       THEN <<[name |-> LastName(runs[i].competitor) \o " R"
                                        \o RoundStr(round),
                               competitor |-> runs[i].competitor,
                               position |-> Pos(runs[i]),
                               score |-> ParseFloat(runs[i].final_score).val,
                               streak |-> streak, round |-> round]>>
                       ELSE <<>>
         IN  pushed \o IR_scan(runs, i + 1, StreakAfter(streak, status), map, round)

IR_computeReliefData(rows, map) ==
    IR_scan(RoundRuns(rows, 1), 1, 0, map, 1)
    \o IR_scan(RoundRuns(rows, 2), 1, 0, map, 2)
    \o IR_scan(RoundRuns(rows, 3), 1, 0, map, 3)

\* PremiumReport.computeRelief: the forEach over one round
RECURSIVE PR_scan(_, _, _, _, _)
PR_scan(runs, i, streak, map, round) ==
    IF i > Len(runs) THEN <<>>
    ELSE LET status == PR_getRunStatus(runs[i], map)
             pushed == IF status = "clean"
                       THEN <<[name |-> LastName(runs[i].competitor) \o " R"
                                        \o RoundStr(round),
                               competitor |-> runs[i].competitor,
                               position |-> Pos(runs[i]),
                               score |-> ParseFloat(runs[i].final_score).val,
                               streak |-> streak, round |-> round]>>
                       ELSE <<>>
         IN  pushed \o PR_scan(runs, i + 1, StreakAfter(streak, status), map, round)

PR_computeRelief(rows, map) ==
    PR_scan(RoundRuns(rows, 1), 1, 0, map, 1)
    \o PR_scan(RoundRuns(rows, 2), 1, 0, map, 2)
    \o PR_scan(RoundRuns(rows, 3), 1, 0, map, 3)

(***************************************************************************)
(* SpecStreak: the rows of two rounds and a resolution table, scanned by   *)
(* each of the scripts.  A script loads its rows and runs once.            *)
(***************************************************************************)
\* rows in the loaded file
MaxRows == 5

\* rows of the file that belong to the second round
MaxLaterRows == 3

\* the start list: the rider at each position, the same in every round
Riders ==
    <<"Scotty James", "Yuto Totsuka", "Ruka Hirano", "Ayumu Hirano",
      "Valentino Guseli", "Chaeun Lee", "Jake Pates", "Alessandro Barbieri",
      "Campbell Melville Ives", "Ryusei Yamada", "Jiayu Wang", "Ziyang Wang">>

\* String(n) of a position
PosStr(n) ==
    CASE n = 1 -> "1" [] n = 2 -> "2" [] n = 3 -> "3" [] n = 4 -> "4"
      [] n = 5 -> "5" [] n = 6 -> "6" [] n = 7 -> "7" [] n = 8 -> "8"

\* what a row is: a clean score, a wipeout score, or DNI (did not improve)
\* with a resolved reason or with no entry in the table
ScoredKinds == {"clean", "wipeout"}

RowKinds == ScoredKinds \cup {"absent"} \cup DniReasons

\* the j-th row of the competition: the first k rows are round 1, the
\* rest round 2, each round in start order
StreakRow(j, k, kinds) ==
    LET p == IF j <= k THEN j ELSE j - k
    IN  [competitor |-> Riders[p],
         run |-> IF j <= k THEN "1" ELSE "2",
         position |-> PosStr(p),
         final_score |-> CASE kinds[j] = "clean" -> "93.50"
                           [] kinds[j] = "wipeout" -> "48.75"
                           [] OTHER -> "DNI"]

\* the rows and the resolution table after loading
LoadedRows ==
    \E k \in {x \in 0..MaxRows : MaxRows - x <= MaxLaterRows},
       kinds \in [1..MaxRows -> RowKinds] :
       \* a first run has no earlier score to fall short of: it is never DNI
       /\ \A j \in 1..k : kinds[j] \in ScoredKinds
       \* the file lists the rows last to first
       /\ rawScores = [i \in 1..MaxRows |-> StreakRow(MaxRows + 1 - i, k, kinds)]
       /\ dniMap = [key \in {DniKey(StreakRow(j, k, kinds)) :
                                j \in {x \in 1..MaxRows : kinds[x] \in DniReasons}}
                      |-> LET j == CHOOSE x \in 1..MaxRows :
                                       DniKey(StreakRow(x, k, kinds)) = key
                          IN  kinds[j]]

InitStreak ==
    /\ LoadedRows
    /\ out = NoOut
    /\ PanelIdle
    /\ ScorerIdle
    /\ FilesIdle

\* JudgingAnalyzer.buildRoundSequence(roundNum)
JABuildRoundSequence(roundNum) ==
    /\ out = NoOut
    /\ out' = [op |-> "JudgingAnalyzer.buildRoundSequence", round |-> roundNum,
               result |-> JA_buildRoundSequence(rawScores, dniMap, roundNum)]
    /\ rawScores' = RowsAfterFilterSort(rawScores)
    /\ UNCHANGED <<dniMap, panelVars, scorerVars, fileVars>>

\* ReportGenerator.computeCrashStreaks()
RGComputeCrashStreaks ==
    /\ out = NoOut
    /\ out' = [op |-> "ReportGenerator.computeCrashStreaks",
               result |-> RG_computeCrashStreaks(rawScores, dniMap)]
    /\ rawScores' = RowsAfterFilterSort(rawScores)
    /\ UNCHANGED <<dniMap, panelVars, scorerVars, fileVars>>

\* InteractiveReport.computeReliefData()
IRComputeReliefData ==
    /\ out = NoOut
    /\ out' = [op |-> "InteractiveReport.computeReliefData",
               result |-> IR_computeReliefData(rawScores, dniMap)]
    /\ UNCHANGED <<rawScores, dniMap, panelVars, scorerVars, fileVars>>

\* PremiumReport.computeRelief()
PRComputeRelief ==
    /\ out = NoOut
    /\ out' = [op |-> "PremiumReport.computeRelief",
               result |-> PR_computeRelief(rawScores, dniMap)]
    /\ UNCHANGED <<rawScores, dniMap, panelVars, scorerVars, fileVars>>

NextStreak ==
    \/ \E roundNum \in 1..3 : JABuildRoundSequence(roundNum)
    \/ RGComputeCrashStreaks
    \/ IRComputeReliefData
    \/ PRComputeRelief

SpecStreak == InitStreak /\ [][NextStreak]_vars

\* the status of a loaded row, from its fields and the table
RowStatus(row) ==
    IF row.final_score = "DNI"
    THEN IF DniKey(row) \in DOMAIN dniMap THEN dniMap[DniKey(row)] ELSE "dni_unknown"
    ELSE IF ParseFloat(row.final_score).val >= 5000 THEN "clean" ELSE "wipeout"

RowsOfRound(round) ==
    {rawScores[i] : i \in {x \in DOMAIN rawScores : rawScores[x].run = RoundStr(round)}}

\* the rows of the round at positions strictly between lo and hi
RowsBetween(round, lo, hi) ==
    {r \in RowsOfRound(round) : lo < Pos(r) /\ Pos(r) < hi}

\* the statuses of the round in ascending position
RoundStatuses(round) ==
    [p \in 1..Cardinality(RowsOfRound(round)) |->
        RowStatus(CHOOSE r \in RowsOfRound(round) : Pos(r) = p)]

\* the clean records of the last call's result: round, position, streak
Emitted ==
    IF out.op = "JudgingAnalyzer.buildRoundSequence"
    THEN {[round |-> out.round, position |-> Pos(out.result[i].row),
           streak |-> out.result[i].consecCrashesBefore] :
             i \in {x \in DOMAIN out.result : out.result[x].status = "clean"}}
    ELSE IF out.op \in {"ReportGenerator.computeCrashStreaks",
                        "InteractiveReport.computeReliefData",
                        "PremiumReport.computeRelief"}
    THEN {[round |-> out.result[i].round, position |-> out.result[i].position,
           streak |-> out.result[i].streak] : i \in DOMAIN out.result}
    ELSE {}

\* the rounds the last call scanned
ScannedRounds ==
    IF out.op = "JudgingAnalyzer.buildRoundSequence" THEN {out.round}
    ELSE IF out.op = "none" THEN {}
    ELSE {1, 2, 3}

\* the position of the last clean or skip record before position p (0 when none)
LastCompletedBefore(round, p) ==
    LET done == {Pos(r) : r \in {x \in RowsBetween(round, 0, p) :
                    RowStatus(x) \in {"clean", "strategic_skip", "did_not_improve"}}}
    IN  IF done = {} THEN 0 ELSE CHOOSE q \in done : \A q2 \in done : q2 <= q

\* the wipeout and crash records before position p since the last clean or
\* skip record of the round
CrashesSinceCompleted(round, p) ==
    Cardinality({r \in RowsBetween(round, LastCompletedBefore(round, p), p) :
                    RowStatus(r) \in {"wipeout", "crash"}})

UnknownStatuses == {"unknown", "dni_unknown"}

\* the clean records that come right after an unresolved DNI record
AfterUnknown ==
    {e \in Emitted :
        \E r \in RowsOfRound(e.round) :
            Pos(r) = e.position - 1 /\ RowStatus(r) \in UnknownStatuses}

\* C3 as claimed: a clean record right after an incomplete-unknown record
\* gets streak 0.
C3_UnknownResetsStreak == \A e \in AfterUnknown : e.streak = 0

\* C3 as amended: an incomplete-unknown record leaves the counter as it is;
\* the clean record right after it gets the count that held before the
\* unknown record, so [wipeout, incomplete-unknown, clean] gives 1.
C3_UnknownKeepsStreak ==
    \A e \in AfterUnknown :
        /\ e.streak = CrashesSinceCompleted(e.round, e.position - 1)
        /\ (e.position = 3 /\ RowStatus(CHOOSE r \in RowsOfRound(e.round) : Pos(r) = 1)
                                  = "wipeout")
              => e.streak = 1

\* a round that starts [wipeout, incomplete-unknown, clean] has given the
\* clean record streak 1, with the DNI run absent from the table
C3_Witness ==
    /\ out.op = "PremiumReport.computeRelief"
    /\ Len(RoundStatuses(2)) >= 3
    /\ SubSeq(RoundStatuses(2), 1, 3) = <<"wipeout", "dni_unknown", "clean">>
    /\ \E e \in Emitted : e.round = 2 /\ e.position = 3 /\ e.streak = 1

(***************************************************************************)
(* The judge panel: six score fields, trimmed of their lowest and highest. *)
(***************************************************************************)
\* judges on the panel
NumJudges == 6

Min2(a, b) == IF a <= b THEN a ELSE b

\* Array.prototype.slice(from, to), both zero-based, to exclusive
Slice(seq, from, to) == SubSeq(seq, from + 1, Min2(to, Len(seq)))

RECURSIVE SumSeq(_)
SumSeq(seq) == IF seq = <<>> THEN 0 ELSE seq[1] + SumSeq(Tail(seq))

\* stats.mean: the exact quotient sum / length, kept as a fraction
Mean(seq) == [num |-> SumSeq(seq), den |-> Len(seq)]

\* Math.round(x * 100) / 100 of a fraction of hundredths: the nearest
\* hundredth, a half going up
Round2(x) == (2 * x.num + x.den) \div (2 * x.den)

\* one step of sort((a, b) => a - b) on numbers
RECURSIVE InsertNumber(_, _)
InsertNumber(sorted, v) ==
    IF sorted = <<>> THEN <<v>>
    ELSE IF sorted[Len(sorted)] <= v THEN Append(sorted, v)
    ELSE Append(InsertNumber(SubSeq(sorted, 1, Len(sorted) - 1), v),
                sorted[Len(sorted)])

RECURSIVE SortNumbersPrefix(_, _)
SortNumbersPrefix(seq, n) ==
    IF n = 0 THEN <<>> ELSE InsertNumber(SortNumbersPrefix(seq, n - 1), seq[n])

\* [...scores].sort((a, b) => a - b)
SortNumbers(seq) == SortNumbersPrefix(seq, Len(seq))

\* a plausible slip: a sort that puts a judge before the judges of equal score
RECURSIVE InsertJudgeBeforeEqual(_, _)
InsertJudgeBeforeEqual(sorted, judge) ==
    IF sorted = <<>> THEN <<judge>>
    ELSE IF sorted[Len(sorted)].scoreNum < judge.scoreNum THEN Append(sorted, judge)
    ELSE Append(InsertJudgeBeforeEqual(SubSeq(sorted, 1, Len(sorted) - 1), judge),
                sorted[Len(sorted)])

\* one step of the stable sort((a, b) => a.scoreNum - b.scoreNum): a judge
\* goes after the judges of lower or equal score
RECURSIVE InsertJudge(_, _)
InsertJudge(sorted, judge) ==
    IF sorted = <<>> THEN <<judge>>
    ELSE IF sorted[Len(sorted)].scoreNum <= judge.scoreNum THEN Append(sorted, judge)
    ELSE Append(InsertJudge(SubSeq(sorted, 1, Len(sorted) - 1), judge),
                sorted[Len(sorted)])

RECURSIVE SortJudgesPrefix(_, _)
SortJudgesPrefix(judges, n) ==
    IF n = 0 THEN <<>> ELSE InsertJudge(SortJudgesPrefix(judges, n - 1), judges[n])

\* [...validScores].sort((a, b) => a.scoreNum - b.scoreNum)
SortJudges(judges) == SortJudgesPrefix(judges, Len(judges))

\* JudgingAnalyzer.getJudgeScores: the judges whose field parses to a number
RECURSIVE JA_getJudgeScoresFrom(_, _)
JA_getJudgeScoresFrom(fields, j) ==
    IF j > NumJudges THEN <<>>
    ELSE LET val == ParseFloat(fields[j])
         IN  (IF ~val.nan THEN <<[judgeNum |-> j, score |-> val.val]>> ELSE <<>>)
             \o JA_getJudgeScoresFrom(fields, j + 1)

JA_getJudgeScores(fields) == JA_getJudgeScoresFrom(fields, 1)

\* a plausible slip: the four lowest scores kept, slice(0, 4)
JA_trimmedComparisonLowest4(fields) ==
    LET scores == JA_getJudgeScores(fields)
        allScores == [i \in DOMAIN scores |-> scores[i].score]
        sorted == SortNumbers(allScores)
        middle4 == Slice(sorted, 0, 4)
    IN  IF Len(scores) < 6 THEN <<>>
        ELSE <<[rawMean |-> Round2(Mean(allScores)),
                trimmedMean |-> Round2(Mean(middle4)),
                shift |-> Round2([num |-> 3 * SumSeq(middle4) - 2 * SumSeq(allScores),
                                  den |-> 12]),
                droppedLow |-> sorted[1], droppedHigh |-> sorted[6],
                spread |-> sorted[6] - sorted[1]]>>

\* JudgingAnalyzer.analyzeQ4_TrimmedMean: what one scored run adds to
\* comparisons (nothing when it has fewer than 6 judge scores)
JA_trimmedComparison(fields) ==
    LET scores == JA_getJudgeScores(fields)
        allScores == [i \in DOMAIN scores |-> scores[i].score]
        sorted == SortNumbers(allScores)
        middle4 == Slice(sorted, 1, 5)
    IN  IF Len(scores) < 6 THEN <<>>
        ELSE <<[rawMean |-> Round2(Mean(allScores)),
                trimmedMean |-> Round2(Mean(middle4)),
                \* trimmedMean - rawMean = (3 * sum4 - 2 * sum6) / 12
                shift |-> Round2([num |-> 3 * SumSeq(middle4) - 2 * SumSeq(allScores),
                                  den |-> 12]),
                droppedLow |-> sorted[1], droppedHigh |-> sorted[6],
                spread |-> sorted[6] - sorted[1]]>>

\* PointsPerTrickAnalyzer.getMiddle4Scores
PPT_getMiddle4Scores(fields) ==
    LET parsed == [j \in 1..NumJudges |-> ParseFloat(fields[j])]
        kept == SelectSeq(parsed, LAMBDA v : ~v.nan)
        scores == [i \in DOMAIN kept |-> kept[i].val]
    IN  IF Len(scores) < 4 THEN [null |-> TRUE, scores |-> <<>>]
        ELSE [null |-> FALSE, scores |-> Slice(SortNumbers(scores), 1, 5)]

\* judgeScores.filter(j => j.score !== '' && !isNaN(parseFloat(j.score)))
\*            .map(j => ({ ...j, scoreNum: parseFloat(j.score) }))
ValidJudges(fields) ==
    LET all == [j \in 1..NumJudges |->
                   [num |-> j, score |-> fields[j], scoreNum |-> ParseFloat(fields[j]).val]]
    IN  SelectSeq(all, LAMBDA j : j.score # "" /\ ~ParseFloat(j.score).nan)

\* { ...judge, reason }
Excluded(judge, reason) ==
    [num |-> judge.num, score |-> judge.score, scoreNum |-> judge.scoreNum,
     reason |-> reason]

\* a plausible slip: every judge tied at an extreme is excluded
JDE_findExcludedAllTied(fields) ==
    LET validScores == ValidJudges(fields)
        sorted == SortJudges(validScores)
        lo == sorted[1].scoreNum
        hi == sorted[Len(sorted)].scoreNum
        lows == SelectSeq(sorted, LAMBDA j : j.scoreNum = lo)
        highs == SelectSeq(sorted, LAMBDA j : j.scoreNum = hi /\ j.scoreNum # lo)
    IN  IF Len(validScores) < 4 THEN [excluded |-> <<>>, middle4 |-> <<>>]
        ELSE [excluded |->
                [i \in DOMAIN lows |-> Excluded(lows[i], "low")]
                \o [i \in DOMAIN highs |-> Excluded(highs[i], "high")],
              middle4 |-> SelectSeq(sorted, LAMBDA j : j.scoreNum # lo /\ j.scoreNum # hi)]

\* JudgeDataEnricher.findExcludedJudges: the first of the sorted judges is
\* excluded as low, the last as high, the rest are the middle
JDE_findExcludedJudges(fields) ==
    LET validScores == ValidJudges(fields)
        sorted == SortJudges(validScores)
        n == Len(sorted)
    IN  IF Len(validScores) < 4 THEN [excluded |-> <<>>, middle4 |-> <<>>]
        ELSE [excluded |-> <<Excluded(sorted[1], "low"), Excluded(sorted[n], "high")>>,
              middle4 |-> SubSeq(sorted, 2, n - 1)]

(***************************************************************************)
(* SpecPanel: the six judge score fields of one scored run, trimmed by     *)
(* each of the scripts.                                                    *)
(***************************************************************************)
\* the score fields of a panel: whole scores of a wipeout, or whole scores
\* of a clean run with fields left empty
ScorePalettes == {{"45", "46", "49", "50"}, {"89", "91", "95", ""}}

InitPanel ==
    /\ \E palette \in ScorePalettes : panel \in [1..NumJudges -> palette]
    /\ panelOut = NoOut
    /\ StatusIdle
    /\ ScorerIdle
    /\ FilesIdle

\* JudgingAnalyzer.analyzeQ4_TrimmedMean, the run at hand
JAAnalyzeQ4TrimmedMean ==
    /\ panelOut = NoOut
    /\ panelOut' = [op |-> "JudgingAnalyzer.analyzeQ4_TrimmedMean",
                    comparisons |-> JA_trimmedComparison(panel)]
    /\ UNCHANGED <<panel, statusVars, scorerVars, fileVars>>

\* PointsPerTrickAnalyzer.getMiddle4Scores(row)
PPTGetMiddle4Scores ==
    /\ panelOut = NoOut
    /\ panelOut' = [op |-> "PointsPerTrickAnalyzer.getMiddle4Scores",
                    result |-> PPT_getMiddle4Scores(panel)]
    /\ UNCHANGED <<panel, statusVars, scorerVars, fileVars>>

\* JudgeDataEnricher.findExcludedJudges(row.judges)
JDEFindExcludedJudges ==
    /\ panelOut = NoOut
    /\ panelOut' = [op |-> "JudgeDataEnricher.findExcludedJudges",
                    result |-> JDE_findExcludedJudges(panel)]
    /\ UNCHANGED <<panel, statusVars, scorerVars, fileVars>>

NextPanel ==
    \/ JAAnalyzeQ4TrimmedMean
    \/ PPTGetMiddle4Scores
    \/ JDEFindExcludedJudges

SpecPanel == InitPanel /\ [][NextPanel]_vars

\* the judges of the panel whose field is a number, and their scores
ValidNums == {j \in DOMAIN panel : panel[j] # "" /\ ~ParseFloat(panel[j]).nan}

ScoreOf(j) == ParseFloat(panel[j]).val

PanelMin == CHOOSE v \in {ScoreOf(j) : j \in ValidNums} :
                \A j \in ValidNums : v <= ScoreOf(j)

PanelMax == CHOOSE v \in {ScoreOf(j) : j \in ValidNums} :
                \A j \in ValidNums : v >= ScoreOf(j)

RECURSIVE SumOver(_)
SumOver(js) ==
    IF js = {} THEN 0
    ELSE LET j == CHOOSE x \in js : TRUE IN ScoreOf(j) + SumOver(js \ {j})

\* how many times v occurs in a sequence of numbers
Occurs(seq, v) == Cardinality({i \in DOMAIN seq : seq[i] = v})

\* how many times v should be left once one lowest and one highest score
\* are discarded
LeftAfterTrim(v) ==
    Cardinality({j \in ValidNums : ScoreOf(j) = v})
    - (IF v = PanelMin THEN 1 ELSE 0) - (IF v = PanelMax THEN 1 ELSE 0)

\* C4: with 6 numeric judge scores, the trimmed mean of analyzeQ4_TrimmedMean
\* and the scores of getMiddle4Scores are those of the 4 scores left once the
\* lowest and the highest of the sorted 6 are discarded; [89,95,91,91,91,91]
\* gives 91.00.
C4_TrimmedMeanOfMiddleFour ==
    Cardinality(ValidNums) = 6 =>
        /\ panelOut.op = "JudgingAnalyzer.analyzeQ4_TrimmedMean" =>
              /\ Len(panelOut.comparisons) = 1
              /\ panelOut.comparisons[1].trimmedMean =
                    Round2([num |-> SumOver(ValidNums) - PanelMin - PanelMax, den |-> 4])
              /\ panelOut.comparisons[1].droppedLow = PanelMin
              /\ panelOut.comparisons[1].droppedHigh = PanelMax
              /\ panel = <<"89", "95", "91", "91", "91", "91">> =>
                    panelOut.comparisons[1].trimmedMean = 9100
        /\ panelOut.op = "PointsPerTrickAnalyzer.getMiddle4Scores" =>
              /\ ~panelOut.result.null
              /\ Len(panelOut.result.scores) = 4
              /\ \A i \in 1..3 : panelOut.result.scores[i] <= panelOut.result.scores[i + 1]
              /\ \A j \in ValidNums :
                    Occurs(panelOut.result.scores, ScoreOf(j)) = LeftAfterTrim(ScoreOf(j))
              /\ panel = <<"89", "95", "91", "91", "91", "91">> =>
                    panelOut.result.scores = <<9100, 9100, 9100, 9100>>

\* the panel [89,95,91,91,91,91] has been given the trimmed mean 91.00
C4_Witness ==
    /\ panelOut.op = "JudgingAnalyzer.analyzeQ4_TrimmedMean"
    /\ panel = <<"89", "95", "91", "91", "91", "91">>
    /\ panelOut.comparisons[1].trimmedMean = 9100

\* the judges findExcludedJudges excluded for a reason
ExcludedAs(reason) ==
    {panelOut.result.excluded[i].num :
        i \in {x \in DOMAIN panelOut.result.excluded :
                  panelOut.result.excluded[x].reason = reason}}

Middle4Nums == {panelOut.result.middle4[i].num : i \in DOMAIN panelOut.result.middle4}

\* C5: with at least 4 valid judge scores, findExcludedJudges excludes
\* exactly one judge as low, at the lowest score, and exactly one other judge
\* as high, at the highest score, and returns every remaining valid judge in
\* middle4, also when judges tie at an extreme; [50,45,50,46,49,50] leaves
\* [46,49,50,50].
C5_OneLowOneHighExcluded ==
    (panelOut.op = "JudgeDataEnricher.findExcludedJudges" /\ Cardinality(ValidNums) >= 4) =>
        /\ Len(panelOut.result.excluded) = 2
        /\ Cardinality(ExcludedAs("low")) = 1
        /\ Cardinality(ExcludedAs("high")) = 1
        /\ ExcludedAs("low") # ExcludedAs("high")
        /\ \A j \in ExcludedAs("low") : j \in ValidNums /\ ScoreOf(j) = PanelMin
        /\ \A j \in ExcludedAs("high") : j \in ValidNums /\ ScoreOf(j) = PanelMax
        /\ Len(panelOut.result.middle4) = Cardinality(ValidNums) - 2
        /\ Middle4Nums = ValidNums \ (ExcludedAs("low") \cup ExcludedAs("high"))
        /\ \A i \in DOMAIN panelOut.result.middle4 :
              panelOut.result.middle4[i].scoreNum = ScoreOf(panelOut.result.middle4[i].num)
        /\ panel = <<"50", "45", "50", "46", "49", "50">> =>
              [i \in DOMAIN panelOut.result.middle4 |-> panelOut.result.middle4[i].scoreNum]
                  = <<4600, 4900, 5000, 5000>>

\* the panel [50,45,50,46,49,50], three judges tied at the top, has been trimmed
C5_Witness ==
    /\ panelOut.op = "JudgeDataEnricher.findExcludedJudges"
    /\ panel = <<"50", "45", "50", "46", "49", "50">>
    /\ Len(panelOut.result.middle4) = 4
    /\ Cardinality(ExcludedAs("high")) = 1

TiedAtMin == {j \in ValidNums : ScoreOf(j) = PanelMin}

TiedAtMax == {j \in ValidNums : ScoreOf(j) = PanelMax}

\* C6 as claimed: at each extreme the judge excluded is the lowest judge
\* number among those tied there.
C6_FirstTiedExcluded ==
    (panelOut.op = "JudgeDataEnricher.findExcludedJudges" /\ Cardinality(ValidNums) >= 4) =>
        /\ \A j \in ExcludedAs("low") : \A t \in TiedAtMin : j <= t
        /\ \A j \in ExcludedAs("high") : \A t \in TiedAtMax : j <= t

\* C6 as amended: among judges tied at the lowest score the one excluded is
\* the first in panel order (the lowest judge number); among judges tied at
\* the highest score it is the last in panel order (the highest judge number).
C6_FirstLowLastHighExcluded ==
    (panelOut.op = "JudgeDataEnricher.findExcludedJudges" /\ Cardinality(ValidNums) >= 4) =>
        /\ \A j \in ExcludedAs("low") : \A t \in TiedAtMin : j <= t
        /\ \A j \in ExcludedAs("high") : \A t \in TiedAtMax : j >= t

\* judges 1, 3 and 6 tie at the top and 6 is excluded; judges 2 and 4 tie at
\* the bottom and 2 is excluded
C6_Witness ==
    /\ panelOut.op = "JudgeDataEnricher.findExcludedJudges"
    /\ panel = <<"50", "45", "50", "45", "49", "50">>
    /\ ExcludedAs("high") = {6}
    /\ ExcludedAs("low") = {2}

(***************************************************************************)
(* The trick difficulty scorer.  Scores are kept in hundredths and cork    *)
(* multipliers in tenths.  A trick code handed to the scorer is a string   *)
(* or, when the CSV line has no such column, undefined.                    *)
(***************************************************************************)
Undefined == [type |-> "undefined"]

Str(s) == [type |-> "string", s |-> s]

Null == [type |-> "null"]

\* !trickCode
IsFalsy(trickCode) == trickCode.type = "undefined" \/ trickCode.s = ""

\* !trickCode || !trickCode.trim()
IsBlank(trickCode) == IsFalsy(trickCode) \/ Trim(trickCode.s) = ""

\* the property names every object literal inherits from Object.prototype
ObjectPrototypeKeys ==
    {"constructor", "toString", "toLocaleString", "valueOf", "hasOwnProperty",
     "isPrototypeOf", "propertyIsEnumerable", "__proto__", "__defineGetter__",
     "__defineSetter__", "__lookupGetter__", "__lookupSetter__"}

\* what obj[key] reads when obj has no own property key
Inherited(key) ==
    IF key \in ObjectPrototypeKeys THEN [type |-> "inherited", name |-> key]
    ELSE Undefined

\* the keys of rotationMap
RotationCodes == {3, 5, 7, 9, 10, 12, 14, 16}

RotationMap(num) ==
    CASE num = 3 -> 360 [] num = 5 -> 540 [] num = 7 -> 720 [] num = 9 -> 900
      [] num = 10 -> 1080 [] num = 12 -> 1260 [] num = 14 -> 1440 [] num = 16 -> 1600

\* a plausible slip: the last part that names a rotation wins
RECURSIVE LastRotation(_, _)
LastRotation(parts, i) ==
    IF i > Len(parts) THEN [code |-> 0, degrees |-> 0]
    ELSE LET num == ParseInt(parts[i])
             rest == LastRotation(parts, i + 1)
         IN  IF rest.code # 0 THEN rest
             ELSE IF ~num.nan /\ num.val \in RotationCodes
                  THEN [code |-> num.val, degrees |-> RotationMap(num.val)]
                  ELSE rest

\* the loop of extractRotation over the parts of the code
RECURSIVE FirstRotation(_, _)
FirstRotation(parts, i) ==
    IF i > Len(parts) THEN [code |-> 0, degrees |-> 0]
    ELSE LET num == ParseInt(parts[i])
         IN  IF ~num.nan /\ num.val \in RotationCodes
             THEN [code |-> num.val, degrees |-> RotationMap(num.val)]
             ELSE FirstRotation(parts, i + 1)

extractRotation(trick) == FirstRotation(Split(trick, "-"), 1)

\* a plausible slip: the tests in the opposite order
extractCorkSingleFirst(trick) ==
    IF Includes(trick, "SC") THEN [type |-> "SC", multiplier |-> 12]
    ELSE IF Includes(trick, "DC") THEN [type |-> "DC", multiplier |-> 15]
    ELSE IF Includes(trick, "TC") THEN [type |-> "TC", multiplier |-> 20]
    ELSE [type |-> "none", multiplier |-> 10]

extractCork(trick) ==
    IF Includes(trick, "TC") THEN [type |-> "TC", multiplier |-> 20]
    ELSE IF Includes(trick, "DC") THEN [type |-> "DC", multiplier |-> 15]
    ELSE IF Includes(trick, "SC") THEN [type |-> "SC", multiplier |-> 12]
    ELSE [type |-> "none", multiplier |-> 10]

extractSpinDirection(trick) ==
    IF StartsWith(trick, "Cab") THEN [direction |-> "Cab", isSwitch |-> TRUE]
    ELSE IF StartsWith(trick, "x-")
         THEN [direction |-> IF Split(trick, "-")[2] # "" THEN Split(trick, "-")[2]
                             ELSE "switch",
               isSwitch |-> TRUE]
    ELSE IF StartsWith(trick, "f-") \/ StartsWith(trick, "f")
         THEN [direction |-> "frontside", isSwitch |-> FALSE]
    ELSE IF StartsWith(trick, "b-") \/ StartsWith(trick, "bs")
         THEN [direction |-> "backside", isSwitch |-> FALSE]
    ELSE [direction |-> "unknown", isSwitch |-> FALSE]

\* the own keys of knownGrabs
KnownGrabCodes == {"Mu", "Ng", "Jp", "Tdr", "I", "St", "Ddr", "Me", "Tg", "Ste"}

\* knownGrabs[part]
KnownGrab(part) ==
    IF part \in KnownGrabCodes THEN [type |-> "string", s |-> part]
    ELSE Inherited(part)

extractGrab(trick) ==
    LET parts == Split(trick, "-")
        found == SelectSeq(parts, LAMBDA part : KnownGrab(part).type # "undefined")
        grabs == [i \in DOMAIN found |-> [code |-> found[i]]]
    IN  [grabs |-> grabs, hasCombo |-> Includes(trick, "-to-"), count |-> Len(grabs)]

extractSpecials(trick) ==
    (IF Includes(trick, "AO") THEN <<[code |-> "AO", bonus |-> 100]>> ELSE <<>>)
    \o (IF Includes(trick, "Rd") THEN <<[code |-> "Rd", bonus |-> 100]>> ELSE <<>>)
    \o (IF Includes(trick, "CF") THEN <<[code |-> "CF", bonus |-> 100]>> ELSE <<>>)
    \o (IF Includes(trick, "Mc") THEN <<[code |-> "Mc", bonus |-> 150]>> ELSE <<>>)

\* the keys of rotationScoreMap
RotationDegrees == {0, 360, 540, 720, 900, 1080, 1260, 1440, 1600}

\* rotationScoreMap[degrees] || 0.5
RotationScore(degrees) ==
    IF degrees \notin RotationDegrees THEN 50
    ELSE CASE degrees = 0 -> 50 [] degrees = 360 -> 100 [] degrees = 540 -> 150
           [] degrees = 720 -> 200 [] degrees = 900 -> 300 [] degrees = 1080 -> 400
           [] degrees = 1260 -> 500 [] degrees = 1440 -> 600 [] degrees = 1600 -> 700

\* specials.reduce((sum, s) => sum + s.bonus, 0)
RECURSIVE SumBonus(_)
SumBonus(specials) ==
    IF specials = <<>> THEN 0 ELSE specials[1].bonus + SumBonus(Tail(specials))

\* the bonus of spin.isSwitch, of grab.count > 0 and of grab.hasCombo
HalfPoint == 50

\* the scores of a trick, from its base score and what was extracted
Scores(rotationScore, cork, spin, grab, specialsBonus) ==
    [rotationBase |-> rotationScore,
     corkMultiplied |-> (rotationScore * cork.multiplier) \div 10,
     switchBonus |-> IF spin.isSwitch THEN HalfPoint ELSE 0,
     grabBonus |-> IF grab.count > 0 THEN HalfPoint ELSE 0,
     comboBonus |-> IF grab.hasCombo THEN HalfPoint ELSE 0,
     specialsBonus |-> specialsBonus,
     totalDifficulty |-> (rotationScore * cork.multiplier) \div 10
                         + (IF spin.isSwitch THEN HalfPoint ELSE 0)
                         + (IF grab.count > 0 THEN HalfPoint ELSE 0)
                         + (IF grab.hasCombo THEN HalfPoint ELSE 0)
                         + specialsBonus]

\* the result object of scoreTrick
Result(trickCode, rotation, cork, spin, grab, specials) ==
    [type |-> "difficulty",
     trickCode |-> trickCode,
     rotation |-> rotation,
     cork |-> cork,
     spinDirection |-> spin,
     grab |-> grab,
     specials |-> specials,
     scores |-> Scores(RotationScore(rotation.degrees), cork, spin, grab,
                       SumBonus(specials)),
     complexity |-> Len(Split(trickCode, "-"))]

\* the record scoreTrick builds for a code it has not cached
Difficulty(trickCode) ==
    Result(trickCode, extractRotation(trickCode), extractCork(trickCode),
           extractSpinDirection(trickCode), extractGrab(trickCode),
           extractSpecials(trickCode))

\* a plausible slip: the cache keyed by the trimmed code
CacheKeyTrimmed(trickCode) == Trim(trickCode)

\* the property name under which trickCache holds a code
CacheKey(trickCode) == trickCode

\* this.trickCache[trickCode], read
CacheGet(cache, trickCode) ==
    IF CacheKey(trickCode) \in DOMAIN cache THEN cache[CacheKey(trickCode)]
    ELSE Inherited(CacheKey(trickCode))

\* this.trickCache[trickCode] = result
CachePut(cache, trickCode, result) ==
    [k \in DOMAIN cache \cup {CacheKey(trickCode)} |->
        IF k = CacheKey(trickCode) THEN result ELSE cache[k]]

\* this.trickCache[trickCode] = result; return result
StoreAndReturn(cache, trickCode, result) ==
    [result |-> result, cache |-> CachePut(cache, trickCode, result)]

\* if (this.trickCache[trickCode]) return this.trickCache[trickCode]; ...
ReturnCachedOr(cache, trickCode, cached) ==
    IF cached.type # "undefined" THEN [result |-> cached, cache |-> cache]
    ELSE StoreAndReturn(cache, trickCode, Difficulty(trickCode))

\* scoreTrick: what it returns and the cache it leaves
scoreTrick(cache, trickCode) ==
    IF IsBlank(trickCode) THEN [result |-> Null, cache |-> cache]
    ELSE ReturnCachedOr(cache, trickCode.s, CacheGet(cache, trickCode.s))

\* trick1 .. trick5
TrickFields == 5

\* tricks.push(scored), on the tricks and the cache so far
PushScored(sofar, scored) ==
    [tricks |-> Append(sofar.tricks, scored.result), cache |-> scored.cache]

\* the loop of scoreRun over trick1 .. trick5
RECURSIVE ScoreRunTricks(_, _, _)
ScoreRunTricks(sofar, row, i) ==
    IF i > TrickFields THEN sofar
    ELSE IF IsBlank(row[i]) THEN ScoreRunTricks(sofar, row, i + 1)
    ELSE ScoreRunTricks(PushScored(sofar, scoreTrick(sofar.cache, row[i])), row, i + 1)

\* tricks.reduce((sum, t) => sum + (t ? t.scores.totalDifficulty : 0), 0)
RECURSIVE SumDifficulty(_)
SumDifficulty(tricks) ==
    IF tricks = <<>> THEN 0
    ELSE (IF tricks[1].type = "null" THEN 0 ELSE tricks[1].scores.totalDifficulty)
         + SumDifficulty(Tail(tricks))

\* Math.max(...tricks.map(t => t.scores.totalDifficulty))
MaxDifficulty(tricks) ==
    CHOOSE m \in {tricks[i].scores.totalDifficulty : i \in DOMAIN tricks} :
        \A i \in DOMAIN tricks : m >= tricks[i].scores.totalDifficulty

\* the object scoreRun returns for the tricks it pushed, or the TypeError of
\* reading totalDifficulty of the scores a trick does not have
RunResult(tricks) ==
    IF \E i \in DOMAIN tricks : tricks[i].type = "inherited"
    THEN [type |-> "TypeError"]
    ELSE [type |-> "run",
          tricks |-> tricks,
          trickCount |-> Len(tricks),
          totalDifficulty |-> SumDifficulty(tricks),
          avgDifficulty |-> IF Len(tricks) > 0
                            THEN [num |-> SumDifficulty(tricks), den |-> Len(tricks)]
                            ELSE [num |-> 0, den |-> 1],
          maxDifficulty |-> IF Len(tricks) > 0 THEN MaxDifficulty(tricks) ELSE 0]

\* what the loop left, as the return value and the cache
Returned(loop) == [result |-> RunResult(loop.tricks), cache |-> loop.cache]

\* scoreRun: what it returns and the cache it leaves
scoreRun(cache, row) ==
    Returned(ScoreRunTricks([tricks |-> <<>>, cache |-> cache], row, 1))

(***************************************************************************)
(* SpecScorer: one scorer, called with trick codes and with rows in any    *)
(* order.                                                                  *)
(***************************************************************************)
\* the strings a trick column can hold
TrickStrings ==
    {"Cab-DC-14-Mu", "f-TC-14-Tdr", "x-b-AO-Rd-9-St", "b-Mu-to-I-9", "b-SC-Mc-5",
     "Mu", "Mu ", "", " ", "constructor"}

TrickCodes == {Undefined} \cup {Str(s) : s \in TrickStrings}

\* the trick columns of the rows scored
TrickRows ==
    {<<Str("Cab-DC-14-Mu"), Str("f-TC-14-Tdr"), Str("x-b-AO-Rd-9-St"),
       Str("b-Mu-to-I-9"), Str("b-SC-Mc-5")>>,
     <<Str("f-TC-14-Tdr"), Str(""), Str(" "), Str("Mu "), Undefined>>,
     <<Str("Mu"), Str("constructor"), Undefined, Undefined, Undefined>>,
     <<Str(""), Str(" "), Undefined, Undefined, Undefined>>}

InitScorer ==
    /\ trickCache = EmptyMap
    /\ ret = NoOut
    /\ StatusIdle
    /\ PanelIdle
    /\ FilesIdle

\* scorer.scoreTrick(trickCode)
ScoreTrickCall(trickCode) ==
    /\ \E call \in {scoreTrick(trickCache, trickCode)} :
          /\ trickCache' = call.cache
          /\ ret' = [op |-> "scoreTrick", trickCode |-> trickCode, result |-> call.result]
    /\ UNCHANGED <<statusVars, panelVars, fileVars>>

\* scorer.scoreRun(row)
ScoreRunCall(row) ==
    /\ \E call \in {scoreRun(trickCache, row)} :
          /\ trickCache' = call.cache
          /\ ret' = [op |-> "scoreRun", row |-> row, result |-> call.result]
    /\ UNCHANGED <<statusVars, panelVars, fileVars>>

NextScorer ==
    \/ \E trickCode \in TrickCodes : ScoreTrickCall(trickCode)
    \/ \E row \in TrickRows : ScoreRunCall(row)

SpecScorer == InitScorer /\ [][NextScorer]_vars

\* the base score of a rotation, as the scoring system documents it
BaseScoreOf(degrees) ==
    CASE degrees = 360 -> 100 [] degrees = 540 -> 150 [] degrees = 720 -> 200
      [] degrees = 900 -> 300 [] degrees = 1080 -> 400 [] degrees = 1260 -> 500
      [] degrees = 1440 -> 600 [] degrees = 1600 -> 700 [] OTHER -> 50

\* the total of a difficulty record is base x cork multiplier + switch bonus
\* + grab bonus + combo bonus + the bonuses of the special moves found
TotalIsFormula(d) ==
    /\ d.rotation = extractRotation(d.trickCode)
    /\ d.cork = extractCork(d.trickCode)
    /\ d.scores.corkMultiplied * 10 = BaseScoreOf(d.rotation.degrees) * d.cork.multiplier
    /\ d.scores.switchBonus = (IF extractSpinDirection(d.trickCode).isSwitch THEN 50 ELSE 0)
    /\ d.scores.grabBonus = (IF extractGrab(d.trickCode).count > 0 THEN 50 ELSE 0)
    /\ d.scores.comboBonus = (IF Includes(d.trickCode, "-to-") THEN 50 ELSE 0)
    /\ d.scores.specialsBonus =
          (IF Includes(d.trickCode, "AO") THEN 100 ELSE 0)
          + (IF Includes(d.trickCode, "Rd") THEN 100 ELSE 0)
          + (IF Includes(d.trickCode, "CF") THEN 100 ELSE 0)
          + (IF Includes(d.trickCode, "Mc") THEN 150 ELSE 0)
    /\ d.scores.totalDifficulty =
          d.scores.corkMultiplied + d.scores.switchBonus + d.scores.grabBonus
          + d.scores.comboBonus + d.scores.specialsBonus
    /\ (d.cork.type = "TC" /\ d.rotation.degrees = 1440) => d.scores.corkMultiplied = 1200

\* every difficulty record held or returned follows the formula
FormulaOnRecords ==
    /\ \A k \in DOMAIN trickCache : TotalIsFormula(trickCache[k])
    /\ (ret.op = "scoreTrick" /\ ret.result.type = "difficulty") => TotalIsFormula(ret.result)

\* C7: for every non-empty trick code scoreTrick returns a total difficulty
\* equal to base score of the rotation x cork multiplier + switch bonus +
\* grab bonus + combo bonus + the sum of the special bonuses; a triple cork
\* with a 1440 rotation scores 6.0 x 2.0 = 12.0 plus its bonuses.
C7_TotalIsFormula ==
    (ret.op = "scoreTrick" /\ ~IsBlank(ret.trickCode)) =>
        /\ ret.result.type = "difficulty"
        /\ ret.result.trickCode = ret.trickCode.s
        /\ TotalIsFormula(ret.result)

\* scoreTrick("constructor") has returned what the cache object inherits
\* under that name, which has no total difficulty
C7_Witness ==
    /\ ret.op = "scoreTrick"
    /\ ret.trickCode = Str("constructor")
    /\ ret.result.type = "inherited"

\* what a first scoreTrick call on a fresh scorer returns
FreshResult(trickCode) == scoreTrick(EmptyMap, trickCode).result

\* the cache and the last return are what a fresh scorer computes
AsFresh(cache, r) ==
    /\ \A k \in DOMAIN cache : cache[k] = FreshResult(Str(k))
    /\ r.op = "scoreTrick" => r.result = FreshResult(r.trickCode)
    /\ (r.op = "scoreRun" /\ r.result.type = "run") =>
          \A i \in DOMAIN r.result.tricks :
              \E j \in 1..TrickFields : r.result.tricks[i] = FreshResult(r.row[j])

\* C8: after any sequence of calls scoreTrick(c) returns what a first call
\* on a fresh scorer returns for c, every entry of trickCache is that result
\* for its own code, and no call changes or replaces an entry.
C8_ResultDependsOnlyOnCode ==
    [][/\ AsFresh(trickCache', ret')
       /\ \A k \in DOMAIN trickCache :
              k \in DOMAIN trickCache' /\ trickCache'[k] = trickCache[k]]_vars

\* "Mu" has been scored from the cache while "Mu " is cached beside it with
\* a different result
C8_Witness ==
    /\ ret.op = "scoreTrick"
    /\ ret.trickCode = Str("Mu")
    /\ {"Mu", "Mu ", "f-TC-14-Tdr"} \subseteq DOMAIN trickCache
    /\ ret.result = trickCache["Mu"]
    /\ trickCache["Mu"].scores.grabBonus = 50
    /\ trickCache["Mu "].scores.grabBonus = 0

\* C9: scoreTrick returns null and stores nothing for a missing, empty or
\* blank code and a difficulty record for every other string; scoreRun
\* counts the non-null results as the tricks of the run.
C9_NullOnlyForBlank ==
    /\ \A k \in DOMAIN trickCache : ~IsBlank(Str(k))
    /\ ret.op = "scoreTrick" =>
          IF IsBlank(ret.trickCode) THEN ret.result = Null
          ELSE ret.result.type = "difficulty"
    /\ ret.op = "scoreRun" =>
          /\ ret.result.type = "run"
          /\ ret.result.trickCount =
                Cardinality({i \in 1..TrickFields : FreshResult(ret.row[i]) # Null})
          /\ \A i \in DOMAIN ret.result.tricks : ret.result.tricks[i].type = "difficulty"

\* scoreRun has thrown on a row whose trick column reads "constructor"
C9_Witness ==
    /\ ret.op = "scoreRun"
    /\ ret.result.type = "TypeError"

(***************************************************************************)
(* The CSV loaders: the text of a file split into lines and fields, one    *)
(* record per data line, keyed by the fields of the first line.            *)
(***************************************************************************)
\* the distinct keys headers.forEach assigns, h.trim() of each header
HeaderKeys(headers) == {Trim(headers[i]) : i \in DOMAIN headers}

\* the last header position that assigns key k
LastHeader(headers, k) ==
    CHOOSE i \in DOMAIN headers :
        /\ Trim(headers[i]) = k
        /\ \A j \in DOMAIN headers : Trim(headers[j]) = k => j <= i

\* values[i]?.trim()
FieldAt(values, i) == IF i <= Len(values) THEN Str(Trim(values[i])) ELSE Undefined

\* headers.forEach((h, i) => { row[h.trim()] = values[i]?.trim(); })
CsvRow(headers, values) ==
    [k \in HeaderKeys(headers) |-> FieldAt(values, LastHeader(headers, k))]

\* lines.slice(1).map(line => ...)
CsvRows(lines) ==
    [n \in 1..(Len(lines) - 1) |->
        CsvRow(Split(lines[1], ","), Split(lines[n + 1], ","))]

\* content.trim().split('\n'), then the rows
ParseCSV(content) == CsvRows(Split(Trim(content), "\n"))

\* ReportGenerator.loadCSV: readFileSync throws when the file is absent
RG_loadCSV(fs, filePath) ==
    IF filePath \notin DOMAIN fs THEN [type |-> "ENOENT"]
    ELSE [type |-> "rows", rows |-> ParseCSV(fs[filePath])]

\* MasterDataPipeline.loadCSV: null when the file is absent
MP_loadCSV(fs, filePath) ==
    IF filePath \notin DOMAIN fs THEN Null
    ELSE [type |-> "rows", rows |-> ParseCSV(fs[filePath])]

\* parseInt(row.performance_order) of a loaded row
PerformanceOrder(row) ==
    IF "performance_order" \in DOMAIN row /\ row["performance_order"].type = "string"
    THEN ParseInt(row["performance_order"].s)
    ELSE NaN

\* one step of the stable sort by performance_order
RECURSIVE InsertByOrder(_, _)
InsertByOrder(sorted, row) ==
    IF sorted = <<>> THEN <<row>>
    ELSE IF PerformanceOrder(sorted[Len(sorted)]).val <= PerformanceOrder(row).val
         THEN Append(sorted, row)
    ELSE Append(InsertByOrder(SubSeq(sorted, 1, Len(sorted) - 1), row),
                sorted[Len(sorted)])

RECURSIVE SortByOrderPrefix(_, _)
SortByOrderPrefix(rows, n) ==
    IF n = 0 THEN <<>> ELSE InsertByOrder(SortByOrderPrefix(rows, n - 1), rows[n])

\* the orders of rows the sort by performance_order can leave: the stable
\* ascending order, or any order when a comparison is NaN
SortedByOrder(rows) ==
    IF \A n \in DOMAIN rows : ~PerformanceOrder(rows[n]).nan
    THEN {SortByOrderPrefix(rows, Len(rows))}
    ELSE {[n \in DOMAIN rows |-> rows[perm[n]]] :
             perm \in {f \in [DOMAIN rows -> DOMAIN rows] :
                          \A a, b \in DOMAIN rows : a # b => f[a] # f[b]}}

(***************************************************************************)
(* SpecLoader: one CSV file, or none, loaded by each loader.               *)
(***************************************************************************)
\* data lines of a file
MaxDataLines == 2

LoaderPath == "data/raw/milano-cortina-2026-mens-halfpipe.csv"

HeaderLine == "competitor,performance_order,final_score"

\* data lines: well formed, short, long, padded
DataLines ==
    {"Scotty James,1,93.50", "Yuto Totsuka,2,DNI", "Ayumu Hirano,3",
     "Valentino Guseli,4,88.00,late entry", " Ruka Hirano , 5 , 48.75 "}

RECURSIVE JoinLines(_)
JoinLines(lines) ==
    IF lines = <<>> THEN ""
    ELSE IF Len(lines) = 1 THEN lines[1]
    ELSE lines[1] \o "\n" \o JoinLines(Tail(lines))

\* the texts a CSV file can hold: with or without its header line, with or
\* without a final newline
CsvTexts ==
    {JoinLines(head \o body) \o tail :
        head \in {<<>>, <<HeaderLine>>},
        body \in UNION {[1..n -> DataLines] : n \in 0..MaxDataLines},
        tail \in {"", "\n"}}

InitLoader ==
    /\ files \in {EmptyMap} \cup {[p \in {LoaderPath} |-> text] : text \in CsvTexts}
    /\ exit = NoOut
    /\ StatusIdle
    /\ PanelIdle
    /\ ScorerIdle

\* new ReportGenerator: this.rawScores = this.loadCSV(path)
RGLoadCSV ==
    /\ out = NoOut
    /\ out' = [op |-> "ReportGenerator.loadCSV", result |-> RG_loadCSV(files, LoaderPath)]
    /\ rawScores' = IF RG_loadCSV(files, LoaderPath).type = "rows"
                    THEN RG_loadCSV(files, LoaderPath).rows ELSE rawScores
    /\ UNCHANGED <<dniMap, panelVars, scorerVars, fileVars>>

\* MasterDataPipeline.loadCSV(path)
MPLoadCSV ==
    /\ out = NoOut
    /\ out' = [op |-> "MasterDataPipeline.loadCSV", result |-> MP_loadCSV(files, LoaderPath)]
    /\ UNCHANGED <<rawScores, dniMap, panelVars, scorerVars, fileVars>>

\* WipeoutContextAnalyzer.loadDataFromCSV(path): the rows pushed to
\* this.competitors, then sorted
WCLoadDataFromCSV ==
    /\ out = NoOut
    /\ IF LoaderPath \notin DOMAIN files
       THEN /\ out' = [op |-> "WipeoutContextAnalyzer.loadDataFromCSV",
                       result |-> [type |-> "ENOENT"]]
            /\ UNCHANGED rawScores
       ELSE \E sorted \in SortedByOrder(ParseCSV(files[LoaderPath])) :
                /\ out' = [op |-> "WipeoutContextAnalyzer.loadDataFromCSV",
                           result |-> [type |-> "rows", rows |-> sorted]]
                /\ rawScores' = sorted
    /\ UNCHANGED <<dniMap, panelVars, scorerVars, fileVars>>

NextLoader ==
    \/ RGLoadCSV
    \/ MPLoadCSV
    \/ WCLoadDataFromCSV

SpecLoader == InitLoader /\ [][NextLoader]_vars

LoaderOps ==
    {"ReportGenerator.loadCSV", "MasterDataPipeline.loadCSV",
     "WipeoutContextAnalyzer.loadDataFromCSV"}

\* the text has no header line, or a data line whose field count is not
\* the header's
Malformed(text) ==
    LET lines == Split(Trim(text), "\n")
    IN  \/ lines[1] # HeaderLine
        \/ \E n \in 2..Len(lines) :
              Len(Split(lines[n], ",")) # Len(Split(HeaderLine, ","))

\* a record with exactly the header's fields, each present
WellFormedRow(row) ==
    /\ DOMAIN row = HeaderKeys(Split(HeaderLine, ","))
    /\ \A k \in DOMAIN row : row[k] # Undefined

\* C11: a loader given a file without its header row, or with a data row
\* whose field count differs from the header's, fails with a malformed-input
\* error, and no loader ever returns a record with missing or extra fields.
C11_MalformedInputRejected ==
    (out.op \in LoaderOps /\ LoaderPath \in DOMAIN files) =>
        IF Malformed(files[LoaderPath])
        THEN out.result.type = "MalformedInputError"
        ELSE /\ out.result.type = "rows"
             /\ \A n \in DOMAIN out.result.rows : WellFormedRow(out.result.rows[n])

\* a loader has returned, without an error, the record of a data line that
\* is one field short: its final_score is undefined
C11_Witness ==
    /\ out.op \in LoaderOps
    /\ LoaderPath \in DOMAIN files
    /\ files[LoaderPath] = HeaderLine \o "\n" \o "Ayumu Hirano,3"
    /\ out.result.type = "rows"
    /\ out.result.rows[1]["final_score"] = Undefined
    /\ out.result.rows[1]["competitor"] = Str("Ayumu Hirano")

\* C12: a panel whose number of valid judge scores is not 6 never yields a
\* trimmed mean or a middle-4 set: with 4 or 5 valid scores, as with fewer,
\* each computation reports insufficient data instead.
C12_SixScoresOrInsufficient ==
    Cardinality(ValidNums) # 6 =>
        /\ panelOut.op = "JudgingAnalyzer.analyzeQ4_TrimmedMean" =>
              panelOut.comparisons = <<>>
        /\ panelOut.op = "PointsPerTrickAnalyzer.getMiddle4Scores" =>
              panelOut.result.null
        /\ panelOut.op = "JudgeDataEnricher.findExcludedJudges" =>
              panelOut.result.excluded = <<>> /\ panelOut.result.middle4 = <<>>

\* getMiddle4Scores has returned four scores for a panel of five, having
\* discarded the lowest score only
C12_Witness ==
    /\ panelOut.op = "PointsPerTrickAnalyzer.getMiddle4Scores"
    /\ panel = <<"89", "91", "95", "91", "89", "">>
    /\ panelOut.result.scores = <<8900, 9100, 9100, 9500>>

(***************************************************************************)
(* HalfpipeAnalyzer.analyzeConsecutiveScores: each competitor's best score *)
(* paired with the score of the competitor before.                         *)
(***************************************************************************)
\* parseFloat of a loaded field; parseFloat(undefined) is NaN
ParseFloatField(field) ==
    IF field.type = "undefined" THEN NaN ELSE ParseFloat(field.s)

\* a - b on numbers
Minus(a, b) == IF a.nan \/ b.nan THEN NaN ELSE Num(a.val - b.val)

\* how stats.sampleCorrelation(x, y) can end: a coefficient for two points
\* or more; with fewer the library throws, or in older releases yields NaN
SampleCorrelationOutcomes(x, y) ==
    IF Len(x) < 2 \/ Len(y) < 2 THEN {"throws", "NaN"} ELSE {"coefficient"}

\* the loop over i = 1 .. scores.length - 1
ConsecutivePairs(scores) ==
    [i \in 1..(Len(scores) - 1) |->
        [rank |-> i,
         previousScore |-> scores[i],
         currentScore |-> scores[i + 1],
         scoreDifference |-> Minus(scores[i + 1], scores[i])]]

\* what analyzeConsecutiveScores returns once the library call ended as
\* outcome, together with the arguments of that call
ConsecutiveResult(pairs, outcome) ==
    IF outcome = "throws"
    THEN [type |-> "Error",
          correlationOf |-> [x |-> [i \in DOMAIN pairs |-> pairs[i].previousScore],
                             y |-> [i \in DOMAIN pairs |-> pairs[i].currentScore]]]
    ELSE [type |-> "result",
          correlation |-> outcome,
          correlationOf |-> [x |-> [i \in DOMAIN pairs |-> pairs[i].previousScore],
                             y |-> [i \in DOMAIN pairs |-> pairs[i].currentScore]],
          pairCount |-> Len(pairs),
          pairs |-> pairs]

\* if (scores.length < 2)
HA_tooFew(scores) == Len(scores) < 2

\* the results analyzeConsecutiveScores can give for the loaded rows
HA_analyzeConsecutiveScores(competitionData) ==
    LET scores == [i \in DOMAIN competitionData |->
                      ParseFloatField(competitionData[i].best_score)]
    IN  IF HA_tooFew(scores)
        THEN {[type |-> "null", warning |-> "Insufficient data for analysis"]}
        ELSE {ConsecutiveResult(ConsecutivePairs(scores), outcome) :
                 outcome \in SampleCorrelationOutcomes(
                     [i \in 1..(Len(scores) - 1) |-> scores[i]],
                     [i \in 1..(Len(scores) - 1) |-> scores[i + 1]])}

(***************************************************************************)
(* SpecConsecutive: the loaded competitors, analysed once.                 *)
(***************************************************************************)
\* competitors in the loaded file
MaxCompetitors == 4

BestScoreFields == {Str("93.50"), Str("48.75"), Undefined}

InitConsecutive ==
    /\ rawScores \in UNION {[1..n -> [best_score : BestScoreFields]] : n \in 0..MaxCompetitors}
    /\ dniMap = EmptyMap
    /\ out = NoOut
    /\ PanelIdle
    /\ ScorerIdle
    /\ FilesIdle

\* analyzer.analyzeConsecutiveScores()
HAAnalyzeConsecutiveScores ==
    /\ out = NoOut
    /\ \E result \in HA_analyzeConsecutiveScores(rawScores) :
          out' = [op |-> "HalfpipeAnalyzer.analyzeConsecutiveScores", result |-> result]
    /\ UNCHANGED <<rawScores, dniMap, panelVars, scorerVars, fileVars>>

NextConsecutive == HAAnalyzeConsecutiveScores

SpecConsecutive == InitConsecutive /\ [][NextConsecutive]_vars

\* C13: analyzeConsecutiveScores calls the correlation only on sequences of
\* at least 2 points; when the previous-score and current-score sequences
\* would have fewer than 2 points it returns null with a warning instead.
C13_CorrelationNeedsTwoPoints ==
    out.op = "HalfpipeAnalyzer.analyzeConsecutiveScores" =>
        IF Len(rawScores) - 1 < 2
        THEN out.result.type = "null"
        ELSE /\ out.result.type = "result"
             /\ Len(out.result.correlationOf.x) >= 2
             /\ Len(out.result.correlationOf.y) >= 2

\* two competitors are loaded and the correlation has been called on the
\* single pair they make
C13_Witness ==
    /\ out.op = "HalfpipeAnalyzer.analyzeConsecutiveScores"
    /\ Len(rawScores) = 2
    /\ out.result.type # "null"
    /\ Len(out.result.correlationOf.x) = 1

(***************************************************************************)
(* Grouped aggregations over the clean runs.                               *)
(***************************************************************************)
\* the master dataset the pipeline writes from the loaded rows: the row
\* with its run_status column
MasterRow(row, map) ==
    [competitor |-> row.competitor, run |-> row.run, position |-> row.position,
     final_score |-> row.final_score, run_status |-> MP_runStatus(row, map)]

MasterData(rows, map) == [i \in DOMAIN rows |-> MasterRow(rows[i], map)]

\* JudgeBiasAnalyzer.isWitnessedCrash
JB_isWitnessedCrash(row) == row.run_status = "wipeout" \/ row.run_status = "crash"

\* JudgeBiasAnalyzer.isCleanRun
JB_isCleanRun(row) == row.run_status = "clean"

\* JudgeBiasAnalyzer.getRunsInRound
JB_getRunsInRound(masterData, roundNum) == RoundRuns(masterData, roundNum)

\* the context object built from the runs that precede
JB_context(preceding) ==
    [crashesBefore |-> Len(SelectSeq(preceding, JB_isWitnessedCrash)),
     cleanBefore |-> Len(SelectSeq(preceding, JB_isCleanRun)),
     totalBefore |-> Len(preceding),
     immediatelyAfterCrash |-> Len(preceding) > 0
                               /\ JB_isWitnessedCrash(preceding[Len(preceding)])]

\* JudgeBiasAnalyzer.getCrashContextForRun
JB_getCrashContextForRun(masterData, run) ==
    JB_context(SelectSeq(JB_getRunsInRound(masterData, ParseInt(run.run).val),
                         LAMBDA r : Pos(r) < Pos(run)))

\* { ...run, score, ...ctx }
JB_withContext(run, ctx) ==
    [competitor |-> run.competitor, run |-> run.run, position |-> run.position,
     final_score |-> run.final_score, run_status |-> run.run_status,
     score |-> ParseFloat(run.final_score).val,
     crashesBefore |-> ctx.crashesBefore, cleanBefore |-> ctx.cleanBefore,
     totalBefore |-> ctx.totalBefore,
     immediatelyAfterCrash |-> ctx.immediatelyAfterCrash]

\* stats.mean of the scores of a group, null for an empty group
MeanOrNull(group) ==
    IF Len(group) > 0
    THEN [null |-> FALSE, num |-> SumSeq([i \in DOMAIN group |-> group[i].score]),
          den |-> Len(group)]
    ELSE [null |-> TRUE, num |-> 0, den |-> 1]

\* a plausible slip: the second group keeping only the runs that follow a
\* clean run
JB_groupsCleanBefore(withContext) ==
    [afterCrash |-> SelectSeq(withContext, LAMBDA r : r.crashesBefore > 0),
     noCrashContext |-> SelectSeq(withContext, LAMBDA r : r.cleanBefore > 0)]

\* the two groups of analyzeReliefBias, from the clean runs with context
JB_groups(withContext) ==
    [afterCrash |-> SelectSeq(withContext, LAMBDA r : r.crashesBefore > 0),
     noCrashContext |-> SelectSeq(withContext, LAMBDA r : ~(r.crashesBefore > 0))]

\* the groups and what analyzeReliefBias returns for them
JB_result(cleanRuns, groups) ==
    [threw |-> FALSE,
     cleanRuns |-> cleanRuns,
     afterCrash |-> groups.afterCrash,
     noCrashContext |-> groups.noCrashContext,
     result |-> [afterCrash |-> [count |-> Len(groups.afterCrash),
                                 mean |-> MeanOrNull(groups.afterCrash)],
                 noCrashContext |-> [count |-> Len(groups.noCrashContext),
                                     mean |-> MeanOrNull(groups.noCrashContext)]]]

\* each clean run with its score and crash context
JB_cleanWithContext(masterData, cleanRuns) ==
    [i \in DOMAIN cleanRuns |->
        JB_withContext(cleanRuns[i], JB_getCrashContextForRun(masterData, cleanRuns[i]))]

JB_grouped(masterData, cleanRuns) ==
    JB_result(cleanRuns, JB_groups(JB_cleanWithContext(masterData, cleanRuns)))

\* stats.mean(allScores) of the baseline: the library throws on an empty
\* array, or in older releases yields NaN
BaselineOutcomes(cleanRuns) ==
    IF Len(cleanRuns) = 0 THEN {"throws", "NaN"} ELSE {"mean"}

JB_outcome(outcome, grouped) ==
    IF outcome = "throws" THEN [threw |-> TRUE] ELSE grouped

\* JudgeBiasAnalyzer.analyzeReliefBias: the results it can end with
JB_analyzeReliefBias(masterData) ==
    {JB_outcome(outcome, JB_grouped(masterData, SelectSeq(masterData, JB_isCleanRun))) :
        outcome \in BaselineOutcomes(SelectSeq(masterData, JB_isCleanRun))}

\* the clean records of a round sequence, as analyzeQ1Q2_ReliefBias pushes them
JA_cleanOfRound(sequence, round) ==
    LET clean == SelectSeq(sequence, LAMBDA run : run.status = "clean")
    IN  [i \in DOMAIN clean |->
            [competitor |-> clean[i].row.competitor,
             position |-> Pos(clean[i].row),
             round |-> round,
             score |-> ParseFloat(clean[i].row.final_score).val,
             consecCrashes |-> clean[i].consecCrashesBefore]]

\* allCleanWithContext, rounds 1 to 3
JA_allCleanWithContext(rows, map) ==
    JA_cleanOfRound(JA_buildRoundSequence(rows, map, 1), 1)
    \o JA_cleanOfRound(JA_buildRoundSequence(rows, map, 2), 2)
    \o JA_cleanOfRound(JA_buildRoundSequence(rows, map, 3), 3)

\* byStreak: the clean records under their streak, in the order pushed
JA_byStreak(allClean) ==
    [streak \in {allClean[i].consecCrashes : i \in DOMAIN allClean} |->
        SelectSeq(allClean, LAMBDA r : r.consecCrashes = streak)]

\* JudgingAnalyzer.analyzeQ1Q2_ReliefBias: the clean records and their groups
JA_grouped(allClean) == [allClean |-> allClean, byStreak |-> JA_byStreak(allClean)]

JA_analyzeQ1Q2_ReliefBias(rows, map) == JA_grouped(JA_allCleanWithContext(rows, map))

\* comp[`run${round}`]
RunOf(comp, round) ==
    CASE round = 1 -> comp.run1 [] round = 2 -> comp.run2 [] round = 3 -> comp.run3

PC_inTier(c, tier) ==
    CASE tier = "bottom" -> c.performance_order <= 4
      [] tier = "middle" -> c.performance_order >= 5 /\ c.performance_order <= 8
      [] tier = "top" -> c.performance_order >= 9

\* !isNaN(score) && score >= 50
PC_isClean(score) == ~score.nan /\ score.val >= 5000

\* earlier_scores.filter(s => s < 50).length for a run of comp in round
PC_wipeoutsBefore(competitors, comp, round) ==
    Cardinality({i \in 1..(comp.performance_order - 1) :
                    /\ i <= Len(competitors)
                    /\ ~RunOf(competitors[i], round).nan
                    /\ RunOf(competitors[i], round).val < 5000})

\* the clean runs of a tier in the order the nested loops visit them, each
\* with the number of wipeouts before it
PC_cleanRuns(competitors, tier) ==
    LET visits == [n \in 1..(3 * Len(competitors)) |->
                      [comp |-> competitors[((n - 1) \div 3) + 1],
                       round |-> ((n - 1) % 3) + 1]]
        clean == SelectSeq(visits, LAMBDA v : /\ PC_inTier(v.comp, tier)
                                              /\ PC_isClean(RunOf(v.comp, v.round)))
    IN  [i \in DOMAIN clean |->
            [score |-> RunOf(clean[i].comp, clean[i].round).val,
             competitor |-> clean[i].comp.name,
             round |-> clean[i].round,
             performance_order |-> clean[i].comp.performance_order,
             wipeouts_before |->
                 PC_wipeoutsBefore(competitors, clean[i].comp, clean[i].round)]]

\* scores.length > 0 ? stats.mean(scores) : 0
MeanOrZero(group) ==
    IF Len(group) > 0
    THEN [num |-> SumSeq([i \in DOMAIN group |-> group[i].score]), den |-> Len(group)]
    ELSE [num |-> 0, den |-> 1]

\* a - b on means
MeanDifference(a, b) == [num |-> a.num * b.den - b.num * a.den, den |-> a.den * b.den]

\* results[tier], from the runs of the tier's three lists
PC_tierResult(allCleanRuns, recoveryRuns, baselineRuns) ==
    [allCleanRuns |-> allCleanRuns,
     baselineRuns |-> baselineRuns,
     all_clean |-> [count |-> Len(allCleanRuns), mean |-> MeanOrZero(allCleanRuns)],
     baseline |-> [count |-> Len(baselineRuns), mean |-> MeanOrZero(baselineRuns)],
     recovery |-> [count |-> Len(recoveryRuns), mean |-> MeanOrZero(recoveryRuns)],
     relief_bonus |-> MeanDifference(MeanOrZero(recoveryRuns), MeanOrZero(baselineRuns)),
     recovery_runs |-> recoveryRuns]

\* the recovery / baseline split of a tier's clean runs
PC_split(allCleanRuns) ==
    PC_tierResult(allCleanRuns,
                  SelectSeq(allCleanRuns, LAMBDA r : r.wipeouts_before > 0),
                  SelectSeq(allCleanRuns, LAMBDA r : ~(r.wipeouts_before > 0)))

\* PositionControlledAnalyzer.analyzeRecoveryByTier: stats.min of a tier
\* without competitors throws before any result is stored
PC_analyzeRecoveryByTier(competitors) ==
    IF \E tier \in {"bottom", "middle", "top"} :
          \A i \in DOMAIN competitors : ~PC_inTier(competitors[i], tier)
    THEN [threw |-> TRUE]
    ELSE [threw |-> FALSE,
          tiers |-> [tier \in {"bottom", "middle", "top"} |->
                        PC_split(PC_cleanRuns(competitors, tier))]]

(***************************************************************************)
(* SpecGroups: the rows of a competition and the resolution table, grouped *)
(* by each of the analyses.                                                *)
(***************************************************************************)
\* competitors in the results file
MaxStartList == 9

\* the three runs of a competitor: a clean first run and a fall in the
\* second, or a fall in the first and a clean second; the third is DNI
RunProfiles ==
    {[run1 |-> Num(8125), run2 |-> Num(2450), run3 |-> NaN],
     [run1 |-> Num(3000), run2 |-> Num(8875), run3 |-> NaN]}

\* PositionControlledAnalyzer.loadCSV: the records of the results file,
\* listed in performance order
PC_competitors(profiles) ==
    [p \in DOMAIN profiles |->
        [performance_order |-> p, name |-> Riders[p],
         run1 |-> profiles[p].run1, run2 |-> profiles[p].run2, run3 |-> profiles[p].run3]]

ResultsCsv == "data/raw/milano-cortina-2026-mens-halfpipe.csv"

\* the results file of a competition whose riders all had the same runs
PlainResults ==
    [f \in {ResultsCsv} |->
        PC_competitors([p \in 1..MaxStartList |->
                           [run1 |-> Num(8125), run2 |-> Num(2450), run3 |-> NaN]])]

InitGroups ==
    /\ \/ /\ LoadedRows
          /\ files = PlainResults
       \/ /\ rawScores = [i \in 1..MaxRows |->
                             StreakRow(MaxRows + 1 - i, MaxRows, [j \in 1..MaxRows |-> "clean"])]
          /\ dniMap = EmptyMap
          /\ \E n \in {MaxStartList - 1, MaxStartList} :
                \E profiles \in [1..n -> RunProfiles] :
                   files = [f \in {ResultsCsv} |-> PC_competitors(profiles)]
    /\ out = NoOut
    /\ PanelIdle
    /\ ScorerIdle
    /\ exit = NoOut

\* JudgeBiasAnalyzer.analyzeReliefBias()
JBAnalyzeReliefBias ==
    /\ out = NoOut
    /\ \E call \in JB_analyzeReliefBias(MasterData(rawScores, dniMap)) :
          out' = [op |-> "JudgeBiasAnalyzer.analyzeReliefBias", groups |-> call]
    /\ rawScores' = RowsAfterFilterSort(rawScores)
    /\ UNCHANGED <<dniMap, panelVars, scorerVars, fileVars>>

\* JudgingAnalyzer.analyzeQ1Q2_ReliefBias()
JAAnalyzeQ1Q2ReliefBias ==
    /\ out = NoOut
    /\ out' = [op |-> "JudgingAnalyzer.analyzeQ1Q2_ReliefBias",
               groups |-> JA_analyzeQ1Q2_ReliefBias(rawScores, dniMap)]
    /\ UNCHANGED <<rawScores, dniMap, panelVars, scorerVars, fileVars>>

\* PositionControlledAnalyzer.analyzeRecoveryByTier()
PCAnalyzeRecoveryByTier ==
    /\ out = NoOut
    /\ out' = [op |-> "PositionControlledAnalyzer.analyzeRecoveryByTier",
               call |-> PC_analyzeRecoveryByTier(files[ResultsCsv])]
    /\ UNCHANGED <<rawScores, dniMap, panelVars, scorerVars, fileVars>>

NextGroups ==
    \/ JBAnalyzeReliefBias
    \/ JAAnalyzeQ1Q2ReliefBias
    \/ PCAnalyzeRecoveryByTier

SpecGroups == InitGroups /\ [][NextGroups]_vars

\* the loaded rows that are clean runs
CleanInputs == {i \in DOMAIN rawScores : RowStatus(rawScores[i]) = "clean"}

\* how many entries of a group are the run of this loaded row
TimesIn(group, row) ==
    Cardinality({n \in DOMAIN group :
                    /\ group[n].competitor = row.competitor
                    /\ group[n].position = row.position
                    /\ group[n].run = row.run})

\* the same for the records of analyzeQ1Q2_ReliefBias, which carry numbers
TimesInStreakGroup(group, row) ==
    Cardinality({n \in DOMAIN group :
                    /\ group[n].competitor = row.competitor
                    /\ group[n].position = Pos(row)
                    /\ RoundStr(group[n].round) = row.run})

RECURSIVE SumOfCounts(_, _)
SumOfCounts(count, keys) ==
    IF keys = {} THEN 0
    ELSE LET k == CHOOSE x \in keys : TRUE
         IN  count[k] + SumOfCounts(count, keys \ {k})

\* the clean runs of a tier, as competitor and round
CleanOfTier(tier) ==
    LET competitors == files[ResultsCsv]
    IN  {pr \in (DOMAIN competitors) \X (1..3) :
            /\ PC_inTier(competitors[pr[1]], tier)
            /\ PC_isClean(RunOf(competitors[pr[1]], pr[2]))}

TimesInTierGroup(group, pr) ==
    Cardinality({n \in DOMAIN group :
                    group[n].performance_order = pr[1] /\ group[n].round = pr[2]})

\* C14: in each grouped aggregation over clean runs every input clean run
\* is in exactly one group, and the group counts sum to the number of input
\* clean runs: afterCrash / noCrashContext of analyzeReliefBias, the byStreak
\* groups of analyzeQ1Q2_ReliefBias, recovery / baseline of each tier of
\* analyzeRecoveryByTier.
C14_GroupsPartitionCleanRuns ==
    /\ (out.op = "JudgeBiasAnalyzer.analyzeReliefBias" /\ ~out.groups.threw) =>
          /\ \A i \in CleanInputs :
                TimesIn(out.groups.afterCrash, rawScores[i])
                + TimesIn(out.groups.noCrashContext, rawScores[i]) = 1
          /\ out.groups.result.afterCrash.count + out.groups.result.noCrashContext.count
                = Cardinality(CleanInputs)
          /\ out.groups.result.afterCrash.count = Len(out.groups.afterCrash)
          /\ out.groups.result.noCrashContext.count = Len(out.groups.noCrashContext)
    /\ out.op = "JudgingAnalyzer.analyzeQ1Q2_ReliefBias" =>
          /\ \A i \in CleanInputs :
                SumOfCounts([k \in DOMAIN out.groups.byStreak |->
                                TimesInStreakGroup(out.groups.byStreak[k], rawScores[i])],
                            DOMAIN out.groups.byStreak) = 1
          /\ SumOfCounts([k \in DOMAIN out.groups.byStreak |->
                             Len(out.groups.byStreak[k])],
                         DOMAIN out.groups.byStreak) = Cardinality(CleanInputs)
    /\ (out.op = "PositionControlledAnalyzer.analyzeRecoveryByTier" /\ ~out.call.threw) =>
          \A tier \in DOMAIN out.call.tiers :
              LET result == out.call.tiers[tier]
              IN  /\ \A pr \in CleanOfTier(tier) :
                        TimesInTierGroup(result.recovery_runs, pr)
                        + TimesInTierGroup(result.baselineRuns, pr) = 1
                  /\ result.recovery.count + result.baseline.count
                        = Cardinality(CleanOfTier(tier))
                  /\ result.recovery.count = Len(result.recovery_runs)
                  /\ result.baseline.count = Len(result.baselineRuns)

\* analyzeReliefBias has put clean runs in both of its groups
C14_Witness ==
    /\ out.op = "JudgeBiasAnalyzer.analyzeReliefBias"
    /\ ~out.groups.threw
    /\ Len(out.groups.afterCrash) >= 1
    /\ Len(out.groups.noCrashContext) >= 2
    /\ Cardinality(CleanInputs) = Len(out.groups.afterCrash) + Len(out.groups.noCrashContext)

\* the value a mean of 0 has
ZeroMean == [num |-> 0, den |-> 1]

\* C15: a group with zero members is omitted from the output and never
\* appears as a zero-valued entry: a tier of analyzeRecoveryByTier with no
\* recovery runs, or with no baseline runs, gets no mean of 0 for that group
\* and no relief bonus computed from a substituted 0.
C15_EmptyGroupOmitted ==
    (out.op = "PositionControlledAnalyzer.analyzeRecoveryByTier" /\ ~out.call.threw) =>
        \A tier \in DOMAIN out.call.tiers :
            LET result == out.call.tiers[tier]
            IN  /\ result.recovery.count = 0 =>
                      /\ result.recovery.mean # ZeroMean
                      /\ result.relief_bonus # MeanDifference(ZeroMean, result.baseline.mean)
                /\ result.baseline.count = 0 =>
                      /\ result.baseline.mean # ZeroMean
                      /\ result.relief_bonus # MeanDifference(result.recovery.mean, ZeroMean)

\* a tier whose clean runs all had no wipeout before them: its recovery group
\* is empty while its baseline group is not
C15_Witness ==
    /\ out.op = "PositionControlledAnalyzer.analyzeRecoveryByTier"
    /\ ~out.call.threw
    /\ \E tier \in DOMAIN out.call.tiers :
          /\ out.call.tiers[tier].recovery.count = 0
          /\ out.call.tiers[tier].baseline.count > 0

(***************************************************************************)
(* SpecScripts: the scripts as processes over the data and results         *)
(* directories.  A file is known by its path and by who wrote it; the      *)
(* files that exist hold well-formed data, so a script fails only for a    *)
(* file that is absent.  An uncaught exception of readFileSync ends the    *)
(* process with exit code 1.                                               *)
(***************************************************************************)
ScoresCsv == "data/raw/milano-cortina-2026-individual-judge-scores.csv"
JudgesCsv == "data/raw/judges-metadata.csv"
DniResolvedCsv == "data/processed/dni_resolved.csv"
EnrichedCsv == "data/processed/enriched-judge-scores.csv"
JudgeAnalysisCsv == "data/processed/judge_analysis_data.csv"
MasterCsv == "data/processed/master_enriched_dataset.csv"
TrickScoresCsv == "data/processed/trick_difficulty_scores.csv"
TrickScoresJson == "results/trick_difficulty_scores.json"
JudgeAnalysisJson == "results/judge_analysis.json"
JudgeBiasJson == "results/judge_bias_analysis.json"
InteractiveReportHtml == "results/interactive-report.html"

\* what a script does with files: the inputs it cannot run without (read
\* with readFileSync unguarded, or guarded by process.exit(1)), the inputs it
\* skips when absent (guarded by existsSync), and the files it writes last
MasterDataPipeline ==
    [name |-> "MasterDataPipeline",
     required |-> {EnrichedCsv},
     optional |-> {DniResolvedCsv, JudgeAnalysisCsv, ResultsCsv},
     outputs |-> {MasterCsv}]

TrickDifficultyScorer ==
    [name |-> "TrickDifficultyScorer",
     required |-> {ScoresCsv},
     optional |-> {},
     outputs |-> {TrickScoresCsv, EnrichedCsv, TrickScoresJson}]

JudgeDataEnricher ==
    [name |-> "JudgeDataEnricher",
     required |-> {ScoresCsv, JudgesCsv},
     optional |-> {},
     outputs |-> {JudgeAnalysisCsv, JudgeAnalysisJson}]

JudgeBiasAnalyzer ==
    [name |-> "JudgeBiasAnalyzer",
     required |-> {MasterCsv, JudgeAnalysisCsv, JudgesCsv},
     optional |-> {},
     outputs |-> {JudgeBiasJson}]

JudgingAnalyzer ==
    [name |-> "JudgingAnalyzer",
     required |-> {ScoresCsv, JudgesCsv, DniResolvedCsv},
     optional |-> {EnrichedCsv},
     outputs |-> {JudgeBiasJson}]

InteractiveReport ==
    [name |-> "InteractiveReport",
     required |-> {ScoresCsv, JudgesCsv, DniResolvedCsv},
     optional |-> {EnrichedCsv},
     outputs |-> {InteractiveReportHtml}]

Scripts ==
    {MasterDataPipeline, TrickDifficultyScorer, JudgeDataEnricher,
     JudgeBiasAnalyzer, JudgingAnalyzer, InteractiveReport}

\* fs.writeFileSync of each output: the file exists afterwards, with the
\* content of this script
WriteOutputs(fs, script) ==
    [p \in DOMAIN fs \cup script.outputs |->
        IF p \in script.outputs THEN script.name ELSE fs[p]]

\* the process from start to exit
Ended(script, code, read, wrote, missing) ==
    [op |-> script.name, code |-> code, read |-> read, wrote |-> wrote,
     missing |-> missing]

\* one invocation of a script
Invoke(script) ==
    IF script.required \subseteq DOMAIN files
    THEN /\ files' = WriteOutputs(files, script)
         /\ exit' = Ended(script, 0,
                          script.required \cup (script.optional \cap DOMAIN files),
                          script.outputs,
                          (script.required \cup script.optional) \ DOMAIN files)
    ELSE /\ files' = files
         /\ exit' = Ended(script, 1,
                          {},
                          {},
                          (script.required \cup script.optional) \ DOMAIN files)

\* the files the scripts do not produce
GivenFiles == {ScoresCsv, JudgesCsv, ResultsCsv, DniResolvedCsv}

InitScripts ==
    /\ \E present \in SUBSET GivenFiles : files = [p \in present |-> "given"]
    /\ exit = NoOut
    /\ StatusIdle
    /\ PanelIdle
    /\ ScorerIdle

RunMasterDataPipeline ==
    Invoke(MasterDataPipeline) /\ UNCHANGED <<statusVars, panelVars, scorerVars>>

RunTrickDifficultyScorer ==
    Invoke(TrickDifficultyScorer) /\ UNCHANGED <<statusVars, panelVars, scorerVars>>

RunJudgeDataEnricher ==
    Invoke(JudgeDataEnricher) /\ UNCHANGED <<statusVars, panelVars, scorerVars>>

RunJudgeBiasAnalyzer ==
    Invoke(JudgeBiasAnalyzer) /\ UNCHANGED <<statusVars, panelVars, scorerVars>>

RunJudgingAnalyzer ==
    Invoke(JudgingAnalyzer) /\ UNCHANGED <<statusVars, panelVars, scorerVars>>

RunInteractiveReport ==
    Invoke(InteractiveReport) /\ UNCHANGED <<statusVars, panelVars, scorerVars>>

NextScripts ==
    \/ RunMasterDataPipeline
    \/ RunTrickDifficultyScorer
    \/ RunJudgeDataEnricher
    \/ RunJudgeBiasAnalyzer
    \/ RunJudgingAnalyzer
    \/ RunInteractiveReport

SpecScripts == InitScripts /\ [][NextScripts]_vars

\* C16: no two analysis scripts write the same output file: running one
\* analysis never overwrites the artifact another script has written.
C16_NoArtifactOverwritten ==
    [][\A p \in DOMAIN files : p \in DOMAIN files' /\ files'[p] = files[p]]_vars

\* both analyses have run to the end, the later one on the other's artifact
C16_Witness ==
    /\ JudgeBiasJson \in DOMAIN files
    /\ files[JudgeBiasJson] = "JudgingAnalyzer"
    /\ MasterCsv \in DOMAIN files
    /\ exit.op = "JudgingAnalyzer"
    /\ exit.code = 0

\* the inputs of the script that ran last
InputsOf(name) ==
    LET script == CHOOSE sc \in Scripts : sc.name = name
    IN  script.required \cup script.optional

\* C17: if any input CSV a script reads is absent, the invocation ends with
\* a non-zero exit code and has written no output file; an invocation that
\* ends with exit code 0 has read every one of its input files.
C17_MissingInputIsFatal ==
    exit.op # "none" =>
        /\ exit.missing # {} => (exit.code # 0 /\ exit.wrote = {})
        /\ exit.code = 0 => exit.read = InputsOf(exit.op)

\* the pipeline has ended with exit code 0 without the resolution table
C17_Witness ==
    /\ exit.op = "MasterDataPipeline"
    /\ exit.code = 0
    /\ DniResolvedCsv \in exit.missing
    /\ MasterCsv \in exit.wrote

(***************************************************************************)
(* SpecFrame: the loaded rows under the computations of round sequences,   *)
(* crash streaks and crash contexts.                                       *)
(***************************************************************************)
InitFrame == InitStreak

\* JudgeBiasAnalyzer.getRunsInRound(roundNum)
JBGetRunsInRound(roundNum) ==
    /\ out = NoOut
    /\ out' = [op |-> "JudgeBiasAnalyzer.getRunsInRound", round |-> roundNum,
               result |-> JB_getRunsInRound(MasterData(rawScores, dniMap), roundNum)]
    /\ rawScores' = RowsAfterFilterSort(rawScores)
    /\ UNCHANGED <<dniMap, panelVars, scorerVars, fileVars>>

\* JudgeBiasAnalyzer.getCrashContextForRun(run), for the i-th loaded row
JBGetCrashContextForRun(i) ==
    /\ out = NoOut
    /\ out' = [op |-> "JudgeBiasAnalyzer.getCrashContextForRun", run |-> i,
               result |-> JB_getCrashContextForRun(MasterData(rawScores, dniMap),
                                                   MasterRow(rawScores[i], dniMap))]
    /\ rawScores' = RowsAfterFilterSort(rawScores)
    /\ UNCHANGED <<dniMap, panelVars, scorerVars, fileVars>>

NextFrame ==
    \/ \E roundNum \in 1..3 : JABuildRoundSequence(roundNum)
    \/ RGComputeCrashStreaks
    \/ \E roundNum \in 1..3 : JBGetRunsInRound(roundNum)
    \/ \E i \in DOMAIN rawScores : JBGetCrashContextForRun(i)
    \/ JBAnalyzeReliefBias

SpecFrame == InitFrame /\ [][NextFrame]_vars

\* the entries a computation has derived
DerivedEntries(o) ==
    CASE o.op = "JudgingAnalyzer.buildRoundSequence" ->
             {o.result[n] : n \in DOMAIN o.result}
      [] o.op = "ReportGenerator.computeCrashStreaks" ->
             {o.result[n] : n \in DOMAIN o.result}
      [] o.op = "JudgeBiasAnalyzer.getCrashContextForRun" -> {o.result}
      [] o.op = "JudgeBiasAnalyzer.analyzeReliefBias" /\ ~o.groups.threw ->
             {o.groups.afterCrash[n] : n \in DOMAIN o.groups.afterCrash}
             \cup {o.groups.noCrashContext[n] : n \in DOMAIN o.groups.noCrashContext}
      [] OTHER -> {}

MaxTokens == 3

\* tokens for the rotation: each code of the map, numbers that are no code,
\* a number followed by letters, a hexadecimal number, a grab and nothing
RotationTokens ==
    {"3", "5", "7", "9", "10", "12", "14", "16",
     "1", "1440", "14x", "0x10", "Mu", ""}

\* tokens for the cork: each cork, two in one token, lower case, and others
CorkTokens == {"TC", "DC", "SC", "SCDC", "tc", "Mu", "14"}

\* parts.join('-')
RECURSIVE JoinTokens(_)
JoinTokens(tokens) ==
    IF Len(tokens) = 1 THEN tokens[1]
    ELSE tokens[1] \o "-" \o JoinTokens(Tail(tokens))

TokenSeqs(tokenSet) == UNION {[1..n -> tokenSet] : n \in 1..MaxTokens}

InitExtract ==
    /\ ret = NoOut
    /\ trickCache = EmptyMap
    /\ StatusIdle
    /\ PanelIdle
    /\ FilesIdle

\* scorer.extractRotation(trick)
ExtractRotationCall ==
    /\ ret = NoOut
    /\ \E tokens \in TokenSeqs(RotationTokens) :
          ret' = [op |-> "extractRotation", tokens |-> tokens,
                  result |-> extractRotation(JoinTokens(tokens))]
    /\ UNCHANGED <<trickCache, statusVars, panelVars, fileVars>>

\* scorer.extractCork(trick)
ExtractCorkCall ==
    /\ ret = NoOut
    /\ \E tokens \in TokenSeqs(CorkTokens) :
          ret' = [op |-> "extractCork", tokens |-> tokens,
                  result |-> extractCork(JoinTokens(tokens))]
    /\ UNCHANGED <<trickCache, statusVars, panelVars, fileVars>>

\* tokens for the grab: grabs of the table, the combo word, a rotation, a
\* spin, a grab in lower case and a member every object inherits
GrabTokens == {"Mu", "I", "Ste", "to", "9", "b", "mu", "constructor"}

\* scorer.scoreTrick(trickCode) on a scorer that has scored nothing yet
ScoreFreshTrickCall ==
    /\ ret = NoOut
    /\ \E tokens \in TokenSeqs(GrabTokens) :
          \E call \in {scoreTrick(trickCache, Str(JoinTokens(tokens)))} :
             /\ trickCache' = call.cache
             /\ ret' = [op |-> "scoreTrick", tokens |-> tokens, result |-> call.result]
    /\ UNCHANGED <<statusVars, panelVars, fileVars>>

NextExtract ==
    \/ ExtractRotationCall
    \/ ExtractCorkCall
    \/ ScoreFreshTrickCall

SpecExtract == InitExtract /\ [][NextExtract]_vars

\* the number of each rotation token, -1 for one that has none
TokenNumber ==
    [t \in RotationTokens |->
        CASE t = "3" -> 3 [] t = "5" -> 5 [] t = "7" -> 7 [] t = "9" -> 9
          [] t = "10" -> 10 [] t = "12" -> 12 [] t = "14" -> 14 [] t = "16" -> 16
          [] t = "1" -> 1 [] t = "1440" -> 1440 [] t = "14x" -> 14 [] t = "0x10" -> 16
          [] OTHER -> -1]

DegreesOfCode ==
    (3 :> 360) @@ (5 :> 540) @@ (7 :> 720) @@ (9 :> 900) @@ (10 :> 1080)
    @@ (12 :> 1260) @@ (14 :> 1440) @@ (16 :> 1600)

\* C19: extractRotation returns the degrees of the first dash-separated
\* token, left to right, whose number is a key of {3,5,7,9,10,12,14,16},
\* and 0 when there is none; the degrees are always one of 0, 360, 540,
\* 720, 900, 1080, 1260, 1440, 1600.
C19_FirstRotationToken ==
    ret.op = "extractRotation" =>
        LET hits == {i \in DOMAIN ret.tokens :
                        TokenNumber[ret.tokens[i]] \in DOMAIN DegreesOfCode}
        IN  /\ hits = {} => ret.result.degrees = 0
            /\ hits # {} =>
                  LET first == CHOOSE i \in hits : \A j \in hits : i <= j
                  IN  ret.result.degrees = DegreesOfCode[TokenNumber[ret.tokens[first]]]
            /\ ret.result.degrees \in {0, 360, 540, 720, 900, 1080, 1260, 1440, 1600}

\* a code with two rotation tokens of different degrees, after a token that
\* has a number but names no rotation
C19_Witness ==
    /\ ret.op = "extractRotation"
    /\ Len(ret.tokens) = 3
    /\ TokenNumber[ret.tokens[1]] = 1440
    /\ TokenNumber[ret.tokens[2]] = 14
    /\ TokenNumber[ret.tokens[3]] = 9
    /\ ret.result.degrees = 1440

\* the corks each cork token holds
CorksIn ==
    [t \in CorkTokens |->
        CASE t = "TC" -> {"TC"} [] t = "DC" -> {"DC"} [] t = "SC" -> {"SC"}
          [] t = "SCDC" -> {"SC", "DC"} [] OTHER -> {}]

\* C20: extractCork gives a triple cork (2.0) priority over a double cork
\* (1.5), a double over a single (1.2), and 1.0 without any; it returns no
\* other multiplier.
C20_CorkPriority ==
    ret.op = "extractCork" =>
        LET corks == UNION {CorksIn[ret.tokens[i]] : i \in DOMAIN ret.tokens}
        IN  /\ "TC" \in corks => (ret.result.type = "TC" /\ ret.result.multiplier = 20)
            /\ ("TC" \notin corks /\ "DC" \in corks) =>
                  (ret.result.type = "DC" /\ ret.result.multiplier = 15)
            /\ ("TC" \notin corks /\ "DC" \notin corks /\ "SC" \in corks) =>
                  (ret.result.type = "SC" /\ ret.result.multiplier = 12)
            /\ corks = {} => (ret.result.type = "none" /\ ret.result.multiplier = 10)
            /\ ret.result.multiplier \in {10, 12, 15, 20}

\* a code that holds all three corks, the single one first
C20_Witness ==
    /\ ret.op = "extractCork"
    /\ ret.tokens = <<"SC", "DC", "TC">>
    /\ ret.result.multiplier = 20

\* the grab table
GrabTable == {"Mu", "Ng", "Jp", "Tdr", "I", "St", "Ddr", "Me", "Tg", "Ste"}

\* the tokens of the scored code that are in the grab table
GrabTokensOf(tokens) == {i \in DOMAIN tokens : tokens[i] \in GrabTable}

\* the code has the combo marker '-to-': the word between two dashes
HasComboMarker(tokens) == \E i \in 2..(Len(tokens) - 1) : tokens[i] = "to"

\* scoreTrick has computed the difficulty of a code
ScoredDifficulty == ret.op = "scoreTrick" /\ ret.result.type = "difficulty"

\* C21: the grab bonus of a trick is one fixed 0.5 when the code has at
\* least one token of the grab table, whatever their number, and 0 when it
\* has none; a combo marker '-to-' adds one further fixed 0.5.
C21_GrabBonusFixed ==
    ScoredDifficulty =>
        /\ ret.result.scores.grabBonus
              = (IF GrabTokensOf(ret.tokens) # {} THEN 50 ELSE 0)
        /\ ret.result.scores.comboBonus
              = (IF HasComboMarker(ret.tokens) THEN 50 ELSE 0)

\* a code with no token of the grab table, scored with a grab bonus
C21_Witness ==
    /\ ScoredDifficulty
    /\ ret.tokens = <<"b", "constructor", "9">>
    /\ ret.result.scores.grabBonus = 50

\* C22: as the scoring system in trick_difficulty_scores.json documents, the
\* grab bonus is +0.5 per grab: a trick with k recognized grab tokens gets
\* 0.5 x k, plus +0.5 for combo grabs.
C22_GrabBonusPerGrab ==
    ScoredDifficulty =>
        /\ ret.result.scores.grabBonus = 50 * Cardinality(GrabTokensOf(ret.tokens))
        /\ ret.result.scores.comboBonus
              = (IF HasComboMarker(ret.tokens) THEN 50 ELSE 0)

\* a combo of two grabs, scored with the bonus of one
C22_Witness ==
    /\ ScoredDifficulty
    /\ ret.tokens = <<"Mu", "to", "I">>
    /\ ret.result.grab.count = 2
    /\ ret.result.scores.grabBonus = 50
    /\ ret.result.scores.comboBonus = 50

(***************************************************************************)
(* DNIResolver (scripts/scrape_dni_details.js): the external sources are   *)
(* asked one after the other, then the heuristics are applied, the         *)
(* findings merged and the resolutions saved.                              *)
(*   rawScores : this.dniCases, as loadDNICases built them                 *)
(*   files     : the overview table the heuristics read, then the outputs  *)
(*   out       : the position inside run() and what the sources returned   *)
(*   exit      : how the process ended                                     *)
(***************************************************************************)
DniResolutionJson == "results/dni_resolution.json"

\* a property the object does not have (reads as undefined)
Absent == "(undefined)"

\* `${dniCase.competitor}-R${dniCase.run}`
DR_key(dniCase) == dniCase.competitor \o "-R" \o RoundStr(dniCase.run)

\* the first line of the overview table whose name is the competitor's
RECURSIVE DR_overviewLine(_, _, _)
DR_overviewLine(lines, i, competitor) ==
    IF i > Len(lines) THEN [found |-> FALSE]
    ELSE IF lines[i].name = competitor
         THEN [found |-> TRUE, run1 |-> lines[i].run1, run2 |-> lines[i].run2]
         ELSE DR_overviewLine(lines, i + 1, competitor)

\* the scores of the runs before the DNI run
DR_priorScores(dniCase, line) ==
    (IF dniCase.run > 1 /\ ~line.run1.nan THEN <<line.run1.val>> ELSE <<>>)
    \o (IF dniCase.run > 2 /\ ~line.run2.nan THEN <<line.run2.val>> ELSE <<>>)

\* priorScores.some(s => s >= level)
DR_some(priorScores, level) ==
    \E i \in 1..Len(priorScores) : priorScores[i] >= level

\* a plausible slip: an elite score has to exceed 90
DR_hadEliteScoreAbove(priorScores) ==
    \E i \in 1..Len(priorScores) : priorScores[i] > 9000

DR_hadEliteScore(priorScores) == DR_some(priorScores, 9000)

DR_hadHighScore(priorScores) == DR_some(priorScores, 8500)

DR_hadCleanRun(priorScores) == DR_some(priorScores, 5000)

DR_finding(from, reason, source, confidence) ==
    [from |-> from, reason |-> reason, source |-> source, confidence |-> confidence]

\* the branch of applyHeuristics taken for one case; found FALSE when the
\* table has no line of the competitor or no branch assigns this.heuristics[key]
DR_heuristic(dniCase, line) ==
    LET priorScores == DR_priorScores(dniCase, line)
        result(reason, source, confidence) ==
            [found |-> TRUE,
             finding |-> DR_finding("heuristic", reason, source, confidence)]
    IN  IF ~line.found THEN [found |-> FALSE]
        ELSE IF DR_hadEliteScore(priorScores)
        THEN result("strategic_skip", "heuristic: already had elite score", "high")
        ELSE IF DR_hadHighScore(priorScores)
        THEN result("strategic_skip", "heuristic: already had high score", "medium")
        ELSE IF ~DR_hadCleanRun(priorScores) /\ Len(priorScores) > 0
        THEN IF dniCase.trickCount < 4
             THEN result("crash", "heuristic: no clean run + few tricks recorded", "low")
             ELSE result("unknown", "heuristic: no clean run but full tricks", "low")
        ELSE IF DR_hadCleanRun(priorScores) /\ ~DR_hadHighScore(priorScores)
        THEN result("unknown", "heuristic: moderate score, could be either", "low")
        ELSE [found |-> FALSE]

\* applyHeuristics: this.heuristics, a finding per key that got one
DR_applyHeuristics(dniCases, lines) ==
    LET hit(i) == DR_heuristic(dniCases[i],
                               DR_overviewLine(lines, 1, dniCases[i].competitor))
        at(key) == CHOOSE i \in 1..Len(dniCases) :
                       DR_key(dniCases[i]) = key /\ hit(i).found
    IN  [key \in {DR_key(dniCases[i]) : i \in {j \in 1..Len(dniCases) : hit(j).found}}
           |-> hit(at(key)).finding]

\* confidenceRank: { high: 3, medium: 2, low: 1, none: 0 }[level] || 0
DR_confidenceRank(level) ==
    CASE level = "high" -> 3 [] level = "medium" -> 2 [] level = "low" -> 1
      [] OTHER -> 0

\* { ...dniCase, ...fisResults[key] }: the FIS result is a string
\* ('crash' or 'strategic_skip'), whose spread gives one property per
\* character and neither reason nor source nor confidence
DR_fisCandidate(status) == DR_finding("fis", Absent, Absent, Absent)

\* sort((a, b) => confidenceRank(b.confidence) - confidenceRank(a.confidence)):
\* the sort is stable, so a candidate comes after those of higher rank and
\* after those of equal rank that stood before it
DR_sort(candidates) ==
    LET before(i) ==
            {j \in 1..Len(candidates) :
                \/ DR_confidenceRank(candidates[j].confidence)
                      > DR_confidenceRank(candidates[i].confidence)
                \/ /\ DR_confidenceRank(candidates[j].confidence)
                        = DR_confidenceRank(candidates[i].confidence)
                   /\ j < i}
    IN  [k \in 1..Len(candidates) |->
            candidates[CHOOSE i \in 1..Len(candidates) : Cardinality(before(i)) = k - 1]]

\* the candidates of one key, in the order of the array literal
DR_candidates(key, fisResults, newsFindings, ytFindings, heuristics) ==
    (IF key \in DOMAIN fisResults THEN <<DR_fisCandidate(fisResults[key])>> ELSE <<>>)
    \o (IF key \in DOMAIN newsFindings THEN <<newsFindings[key]>> ELSE <<>>)
    \o (IF key \in DOMAIN ytFindings THEN <<ytFindings[key]>> ELSE <<>>)
    \o (IF key \in DOMAIN heuristics THEN <<heuristics[key]>> ELSE <<>>)

\* mergeFindings: one entry of merged per key of the DNI cases
DR_mergeFindings(dniCases, fisResults, newsFindings, ytFindings, heuristics) ==
    [key \in {DR_key(dniCases[i]) : i \in 1..Len(dniCases)} |->
        LET candidates ==
                DR_candidates(key, fisResults, newsFindings, ytFindings, heuristics)
        IN  IF candidates = <<>>
            THEN DR_finding("none", "unknown", "no data found", "none")
            ELSE DR_sort(candidates)[1]]

\* the scores the overview table may hold for a run that was scored, NaN
\* for a cell that is no number (DNI)
ResolverScores ==
    {NaN, Num(4999), Num(5000), Num(8499), Num(8500), Num(8999), Num(9000)}

SecondRunScores == {NaN, Num(3000), Num(9000)}

\* the state of run() before the first source is asked
DR_started ==
    [pc |-> "fis", fis |-> EmptyMap, news |-> EmptyMap, yt |-> EmptyMap,
     heuristics |-> EmptyMap, merged |-> EmptyMap, log |-> <<>>]

\* one DNI case of the first rider, in round 2 or 3, and an overview table
\* that has the rider's line or only another rider's
InitResolver ==
    /\ \E run \in {2, 3}, trickCount \in {3, 4}, listed \in BOOLEAN,
          run1 \in ResolverScores, run2 \in SecondRunScores :
          /\ run = 2 => run2 = NaN
          /\ ~listed => run1 = NaN /\ run2 = NaN
          /\ rawScores = <<[competitor |-> Riders[1], country |-> "AUS",
                            position |-> 1, run |-> run, trickCount |-> trickCount]>>
          /\ files = (ResultsCsv :> <<[name |-> IF listed THEN Riders[1] ELSE Riders[2],
                                       run1 |-> run1, run2 |-> run2]>>)
    /\ dniMap = EmptyMap
    /\ out = DR_started
    /\ exit = NoOut
    /\ PanelIdle /\ ScorerIdle

\* the findings a source may return: nothing, or a finding for some cases
DR_findingsOf(dniCases, findings) ==
    {EmptyMap} \cup {(DR_key(dniCases[i]) :> f) : i \in 1..Len(dniCases), f \in findings}

\* what is logged when a request of the source failed
DR_logged(log, source, failed) == IF failed THEN Append(log, source) ELSE log

\* await this.checkFISResults(): each request may fail, which is logged;
\* the status codes of the first page that has some are returned
CheckFISResults ==
    /\ out.pc = "fis"
    /\ \E failed \in BOOLEAN,
          statusCodes \in DR_findingsOf(rawScores, {"crash", "strategic_skip"}) :
          out' = [out EXCEPT !.pc = "news", !.fis = statusCodes,
                             !.log = DR_logged(@, "FIS", failed)]
    /\ UNCHANGED <<rawScores, dniMap, panelVars, scorerVars, fileVars>>

\* await this.checkNewsArticles()
CheckNewsArticles ==
    /\ out.pc = "news"
    /\ \E failed \in BOOLEAN,
          findings \in DR_findingsOf(rawScores,
                         {DR_finding("news", reason, "NBC Olympics", "medium") :
                            reason \in {"crash", "strategic_skip"}}) :
          out' = [out EXCEPT !.pc = "youtube", !.news = findings,
                             !.log = DR_logged(@, "News", failed)]
    /\ UNCHANGED <<rawScores, dniMap, panelVars, scorerVars, fileVars>>

\* await this.checkYouTubeMetadata()
CheckYouTubeMetadata ==
    /\ out.pc = "youtube"
    /\ \E failed \in BOOLEAN,
          findings \in DR_findingsOf(rawScores,
                         {DR_finding("youtube", "crash", "YouTube metadata", "low")}) :
          out' = [out EXCEPT !.pc = "resolve", !.yt = findings,
                             !.log = DR_logged(@, "YouTube", failed)]
    /\ UNCHANGED <<rawScores, dniMap, panelVars, scorerVars, fileVars>>

\* the rest of run(): applyHeuristics, mergeFindings, the summary (where
\* r.reason.padEnd throws for a resolution without reason, which main's
\* catch turns into exit code 1), then the two output files
ResolveAndSave ==
    /\ out.pc = "resolve"
    /\ \E heuristics \in {DR_applyHeuristics(rawScores, files[ResultsCsv])} :
       \E merged \in {DR_mergeFindings(rawScores, out.fis, out.news, out.yt, heuristics)} :
          /\ out' = [out EXCEPT !.pc = "done", !.heuristics = heuristics,
                                !.merged = merged]
          /\ IF \E key \in DOMAIN merged : merged[key].reason = Absent
             THEN /\ files' = files
                  /\ exit' = [op |-> "DNIResolver", code |-> 1]
             ELSE /\ files' = [p \in DOMAIN files \cup {DniResolvedCsv, DniResolutionJson}
                                 |-> IF p \in {DniResolvedCsv, DniResolutionJson}
                                     THEN DOMAIN merged ELSE files[p]]
                  /\ exit' = [op |-> "DNIResolver", code |-> 0]
    /\ UNCHANGED <<rawScores, dniMap, panelVars, scorerVars>>

NextResolver ==
    \/ CheckFISResults
    \/ CheckNewsArticles
    \/ CheckYouTubeMetadata
    \/ ResolveAndSave

SpecResolver == InitResolver /\ [][NextResolver]_vars

\* the event loop runs every continuation of run() that is ready
SpecResolverFair == SpecResolver /\ WF_vars(NextResolver)

\* the scores the overview table holds for the rounds before the DNI run
\* of the case, none when the table has no line of the competitor
ScoresBefore(dniCase) ==
    {line[2].val : line \in
        {l \in {<<1, files[ResultsCsv][n].run1, n>> : n \in 1..Len(files[ResultsCsv])}
               \cup {<<2, files[ResultsCsv][n].run2, n>> : n \in 1..Len(files[ResultsCsv])} :
            /\ files[ResultsCsv][l[3]].name = dniCase.competitor
            /\ l[1] < dniCase.run
            /\ ~l[2].nan}}

\* the heuristic finding of the case has this reason and confidence
HeuristicIs(dniCase, reason, confidence) ==
    /\ DR_key(dniCase) \in DOMAIN out.heuristics
    /\ out.heuristics[DR_key(dniCase)].reason = reason
    /\ out.heuristics[DR_key(dniCase)].confidence = confidence

\* C23 as stated: strategic_skip/high with a prior score >= 90,
\* strategic_skip/medium with one >= 85 and none >= 90, crash whenever
\* there are prior scores and none is clean (>= 50)
C23_CrashWheneverNoCleanPrior ==
    out.pc = "done" =>
        \A i \in 1..Len(rawScores) :
            LET prior == ScoresBefore(rawScores[i])
            IN  /\ (\E s \in prior : s >= 9000)
                       => HeuristicIs(rawScores[i], "strategic_skip", "high")
                /\ ((\E s \in prior : s >= 8500) /\ (\A s \in prior : s < 9000))
                       => HeuristicIs(rawScores[i], "strategic_skip", "medium")
                /\ (prior # {} /\ \A s \in prior : s < 5000)
                       => out.heuristics[DR_key(rawScores[i])].reason = "crash"

\* C23 (amended): applyHeuristics resolves a DNI case from the scores of the
\* prior runs: strategic_skip/high with a prior score >= 90,
\* strategic_skip/medium with one >= 85 and none >= 90; with prior scores
\* none of which is clean (>= 50) it is crash/low only when the DNI run
\* recorded fewer than 4 tricks, and unknown/low otherwise
C23_HeuristicFromPriorScores ==
    out.pc = "done" =>
        \A i \in 1..Len(rawScores) :
            LET prior == ScoresBefore(rawScores[i])
            IN  /\ (\E s \in prior : s >= 9000)
                       => HeuristicIs(rawScores[i], "strategic_skip", "high")
                /\ ((\E s \in prior : s >= 8500) /\ (\A s \in prior : s < 9000))
                       => HeuristicIs(rawScores[i], "strategic_skip", "medium")
                /\ (prior # {} /\ (\A s \in prior : s < 5000)
                    /\ rawScores[i].trickCount < 4)
                       => HeuristicIs(rawScores[i], "crash", "low")
                /\ (prior # {} /\ (\A s \in prior : s < 5000)
                    /\ rawScores[i].trickCount >= 4)
                       => HeuristicIs(rawScores[i], "unknown", "low")

\* a third-round DNI after a wipeout and an unscored run, three tricks
\* recorded: the heuristic says crash
C23_Witness ==
    /\ out.pc = "done"
    /\ rawScores[1].run = 3
    /\ rawScores[1].trickCount = 3
    /\ ScoresBefore(rawScores[1]) = {4999}
    /\ HeuristicIs(rawScores[1], "crash", "low")

\* the sources that returned a finding for the key
SourcesWith(key) ==
    {s \in {"fis", "news", "youtube", "heuristic"} :
        key \in DOMAIN (CASE s = "fis" -> out.fis [] s = "news" -> out.news
                          [] s = "youtube" -> out.yt [] OTHER -> out.heuristics)}

\* the confidence the finding of the source carries: high 3, medium 2,
\* low 1, none or no confidence at all 0
LevelOf(s, key) ==
    LET confidence == CASE s = "fis" -> Absent
                        [] s = "news" -> out.news[key].confidence
                        [] s = "youtube" -> out.yt[key].confidence
                        [] OTHER -> out.heuristics[key].confidence
    IN  CASE confidence = "high" -> 3 [] confidence = "medium" -> 2
          [] confidence = "low" -> 1 [] OTHER -> 0

\* FIS over news over heuristic over YouTube
Precedence(s) ==
    CASE s = "fis" -> 4 [] s = "news" -> 3 [] s = "heuristic" -> 2 [] OTHER -> 1

\* C24: mergeFindings picks, for every case with a finding, the finding of
\* highest confidence and, among findings of equal confidence, the one of
\* the source that comes first in FIS, news, heuristic, YouTube
C24_TiePrefersHeuristicOverYouTube ==
    out.pc = "done" =>
        \A key \in DOMAIN out.merged :
            SourcesWith(key) # {} =>
                \A s \in SourcesWith(key) :
                    LET chosen == out.merged[key].from
                    IN  \/ LevelOf(chosen, key) > LevelOf(s, key)
                        \/ /\ LevelOf(chosen, key) = LevelOf(s, key)
                           /\ Precedence(chosen) >= Precedence(s)

\* YouTube and the heuristic both report with confidence low, no other
\* source has a finding, and the resolution is YouTube's
C24_Witness ==
    /\ out.pc = "done"
    /\ \E key \in DOMAIN out.merged :
          /\ SourcesWith(key) = {"youtube", "heuristic"}
          /\ out.heuristics[key].confidence = "low"
          /\ out.heuristics[key].reason = "unknown"
          /\ out.merged[key].from = "youtube"
          /\ out.merged[key].reason = "crash"

\* both output files hold a resolution for every DNI case and the process
\* ended normally
ResolutionsSaved ==
    /\ out.pc = "done"
    /\ exit = [op |-> "DNIResolver", code |-> 0]
    /\ {DniResolvedCsv, DniResolutionJson} \subseteq DOMAIN files
    /\ \A i \in 1..Len(rawScores) :
          /\ DR_key(rawScores[i]) \in files[DniResolvedCsv]
          /\ DR_key(rawScores[i]) \in files[DniResolutionJson]

\* the sources are asked in the order FIS, news, YouTube, and the
\* heuristics are applied after the three of them
SourcesInOrder ==
    [][\/ out.pc = "fis" /\ out'.pc = "news"
       \/ out.pc = "news" /\ out'.pc = "youtube"
       \/ out.pc = "youtube" /\ out'.pc = "resolve"
       \/ out.pc = "resolve" /\ out'.pc = "done"]_vars

\* C25: in DNIResolver.run a failed request of an external source is
\* logged and does not stop the run: the sources are still asked in the
\* order FIS, news, YouTube, the heuristics run after them, and the run
\* eventually writes a resolution for every DNI case
C25_FailureDoesNotStopRun ==
    /\ SourcesInOrder
    /\ (out.log # <<>>) ~> ResolutionsSaved

\* the news request failed and was logged, FIS returned a status for a
\* case no other source resolves, and the run ended with exit code 1
\* before either file was written
C25_Witness ==
    /\ out.pc = "done"
    /\ out.log = <<"News">>
    /\ out.fis # EmptyMap
    /\ exit = [op |-> "DNIResolver", code |-> 1]
    /\ DniResolvedCsv \notin DOMAIN files

\* C29: after mergeFindings every DNI case has exactly one resolution,
\* whose reason is crash, strategic_skip or unknown and whose confidence is
\* high, medium, low or none, whichever sources returned a finding
C29_ResolutionWellFormed ==
    out.pc = "done" =>
        /\ DOMAIN out.merged = {DR_key(rawScores[i]) : i \in 1..Len(rawScores)}
        /\ \A key \in DOMAIN out.merged :
              /\ out.merged[key].reason \in {"crash", "strategic_skip", "unknown"}
              /\ out.merged[key].confidence \in {"high", "medium", "low", "none"}

\* FIS alone has a status for the case (the overview table has no line of
\* the competitor): the resolution has neither reason nor confidence
C29_Witness ==
    /\ out.pc = "done"
    /\ \E key \in DOMAIN out.merged :
          /\ SourcesWith(key) = {"fis"}
          /\ out.fis[key] = "crash"
          /\ out.merged[key].reason = Absent
          /\ out.merged[key].confidence = Absent

(***************************************************************************)
(* MomentumAnalyzer (scripts/trick_difficulty_exploration.js): the         *)
(* competitors of the overview table, analysed for recoveries.             *)
(*   rawScores : this.competitors                                          *)
(*   out       : what analyzeRecoveryMomentum returned                     *)
(***************************************************************************)
\* competitors in the overview table
MaxMomentum == 2

\* isWipeout(score): score < 50
MA_isWipeout(score) == ~score.nan /\ score.val < 5000

\* object[property] used as a condition: a property the object does not
\* have reads as undefined, which is falsy like false
MA_truthy(object, property) ==
    property \in DOMAIN object /\ object[property] = TRUE

\* the three run objects of a competitor, those without a number dropped:
\* each has round, score and isWipeout, and no other property
MA_runs(comp) ==
    LET all == <<[round |-> 1, score |-> ParseFloat(comp.run1)],
                 [round |-> 2, score |-> ParseFloat(comp.run2)],
                 [round |-> 3, score |-> ParseFloat(comp.run3)]>>
        scored == SelectSeq(all, LAMBDA r : ~r.score.nan)
    IN  [i \in 1..Len(scored) |->
            [round |-> scored[i].round, score |-> scored[i].score.val,
             isWipeout |-> MA_isWipeout(scored[i].score)]]

\* runs[i - 1].isWipeout && runs[i].isCleanRun
MA_recovers(runs, i) ==
    MA_truthy(runs[i - 1], "isWipeout") /\ MA_truthy(runs[i], "isCleanRun")

\* the entries pushed for one competitor, from i = 1 on
RECURSIVE MA_pairs(_, _, _)
MA_pairs(comp, runs, i) ==
    IF i > Len(runs) THEN <<>>
    ELSE (IF MA_recovers(runs, i)
          THEN <<[competitor |-> comp.competitor,
                  wipeoutRound |-> runs[i - 1].round,
                  wipeoutScore |-> runs[i - 1].score,
                  recoveryRound |-> runs[i].round,
                  recoveryScore |-> runs[i].score,
                  improvement |-> runs[i].score - runs[i - 1].score]>>
          ELSE <<>>)
         \o MA_pairs(comp, runs, i + 1)

\* analyzeRecoveryMomentum: recoveryData over the competitors in order
RECURSIVE MA_analyzeRecoveryMomentum(_, _)
MA_analyzeRecoveryMomentum(competitors, n) ==
    IF n > Len(competitors) THEN <<>>
    ELSE MA_pairs(competitors[n], MA_runs(competitors[n]), 2)
         \o MA_analyzeRecoveryMomentum(competitors, n + 1)

\* what a run cell of the overview table holds
MomentumFields == {"49.99", "50.00", "DNI"}

InitMomentum ==
    /\ \E n \in 1..MaxMomentum :
       \E cells \in [1..n -> [1..3 -> MomentumFields]] :
          rawScores = [i \in 1..n |->
                         [competitor |-> Riders[i], performance_order |-> PosStr(i),
                          run1 |-> cells[i][1], run2 |-> cells[i][2],
                          run3 |-> cells[i][3]]]
    /\ dniMap = EmptyMap
    /\ out = NoOut
    /\ PanelIdle /\ ScorerIdle /\ FilesIdle

AnalyzeRecoveryMomentum ==
    /\ out = NoOut
    /\ out' = [op |-> "analyzeRecoveryMomentum",
               recoveryData |-> MA_analyzeRecoveryMomentum(rawScores, 1)]
    /\ UNCHANGED <<rawScores, dniMap, panelVars, scorerVars, fileVars>>

NextMomentum == AnalyzeRecoveryMomentum

SpecMomentum == InitMomentum /\ [][NextMomentum]_vars

\* the scored runs of a competitor: round and score in hundredths
ScoredRounds(comp) ==
    {r \in 1..3 : ~ParseFloat(CASE r = 1 -> comp.run1 [] r = 2 -> comp.run2
                                [] OTHER -> comp.run3).nan}

ScoreOfRound(comp, r) ==
    ParseFloat(CASE r = 1 -> comp.run1 [] r = 2 -> comp.run2 [] OTHER -> comp.run3).val

\* the pairs of consecutive scored runs of a competitor whose earlier run
\* is a wipeout and whose later run is clean
RecoveryPairs(comp) ==
    {p \in ScoredRounds(comp) \X ScoredRounds(comp) :
        /\ p[1] < p[2]
        /\ \A r \in ScoredRounds(comp) : ~(p[1] < r /\ r < p[2])
        /\ ScoreOfRound(comp, p[1]) < 5000
        /\ ScoreOfRound(comp, p[2]) >= 5000}

\* C26: analyzeRecoveryMomentum records one recovery entry for every pair
\* of consecutive scored runs of a competitor whose earlier run is a
\* wipeout (< 50) and whose later run is clean (>= 50), with the two
\* rounds, the two scores and the improvement
C26_OneEntryPerRecovery ==
    out # NoOut =>
        \A n \in 1..Len(rawScores) : \A p \in RecoveryPairs(rawScores[n]) :
            Cardinality({k \in 1..Len(out.recoveryData) :
                out.recoveryData[k] =
                    [competitor |-> rawScores[n].competitor,
                     wipeoutRound |-> p[1],
                     wipeoutScore |-> ScoreOfRound(rawScores[n], p[1]),
                     recoveryRound |-> p[2],
                     recoveryScore |-> ScoreOfRound(rawScores[n], p[2]),
                     improvement |-> ScoreOfRound(rawScores[n], p[2])
                                     - ScoreOfRound(rawScores[n], p[1])]}) = 1

\* a competitor with 49.99 in round 1, no score in round 2 and 50.00 in
\* round 3 has been analysed, and no entry was recorded
C26_Witness ==
    /\ out # NoOut
    /\ \E n \in 1..Len(rawScores) : RecoveryPairs(rawScores[n]) = {<<1, 3>>}
    /\ out.recoveryData = <<>>

\* C27: for every row and every resolution table the run_status that
\* MasterDataPipeline writes equals what getRunStatus of the analyzers and
\* report generators returns for the same row, rows with an empty or
\* non-numeric final score included
C27_PipelineStatusMatchesGetRunStatus ==
    out.op = "MasterDataPipeline.run" =>
        \A i \in DOMAIN rawScores :
            /\ out.status[i] = JA_getRunStatus(rawScores[i], dniMap)
            /\ out.status[i] = RG_getRunStatus(rawScores[i], dniMap)
            /\ out.status[i] = IR_getRunStatus(rawScores[i], dniMap)
            /\ out.status[i] = PR_getRunStatus(rawScores[i], dniMap)

\* the pipeline has written unknown for a row with an empty final score,
\* which getRunStatus calls a wipeout
C27_Witness ==
    /\ out.op = "MasterDataPipeline.run"
    /\ \E i \in DOMAIN rawScores :
          /\ rawScores[i].final_score = ""
          /\ out.status[i] = "unknown"
          /\ JA_getRunStatus(rawScores[i], dniMap) = "wipeout"

(***************************************************************************)
(* SpecRecovery: one overview table, analysed by WipeoutContextAnalyzer    *)
(* (scripts/wipeout_context_analysis.js) and by                            *)
(* PositionControlledAnalyzer (scripts/position_controlled_analysis.js).   *)
(*   files : the overview table, its rows in file order                    *)
(*   out   : the recovery runs of WipeoutContextAnalyzer.run               *)
(*   ret   : the result of PositionControlledAnalyzer.analyzeRecoveryByTier*)
(***************************************************************************)
\* competitors.sort((a, b) => parseInt(a.performance_order) -
\* parseInt(b.performance_order)): stable, a row comes after the rows of
\* lower order and after the rows of equal order that stood before it
WC_sort(competitors) ==
    LET before(i) ==
            {j \in 1..Len(competitors) :
                \/ competitors[j].performance_order < competitors[i].performance_order
                \/ /\ competitors[j].performance_order = competitors[i].performance_order
                   /\ j < i}
    IN  [k \in 1..Len(competitors) |->
            competitors[CHOOSE i \in 1..Len(competitors) : Cardinality(before(i)) = k - 1]]

\* isWipeout(score): score < 50
WC_isWipeout(score) == score < 5000

\* organizeByRound: this.rounds[round], the runs with a number as score
WC_round(competitors, round) ==
    LET scored == SelectSeq(competitors, LAMBDA comp : ~RunOf(comp, round).nan)
    IN  [i \in 1..Len(scored) |->
            [order |-> scored[i].performance_order, competitor |-> scored[i].name,
             score |-> RunOf(scored[i], round).val]]

\* analyzeWipeoutContext: a context for every run of the round that is no
\* wipeout, with the wipeouts among the runs before it
WC_analyzeWipeoutContext(roundData, round) ==
    LET clean == {i \in 1..Len(roundData) : ~WC_isWipeout(roundData[i].score)}
    IN  {[round |-> round, competitor |-> roundData[i].competitor,
          score |-> roundData[i].score,
          wipeoutsInRound |-> Cardinality({j \in 1..(i - 1) :
                                              WC_isWipeout(roundData[j].score)})] :
            i \in clean}

\* analyzeRecoveryScores: the performances with perf.wipeoutsInRound > 0
WC_recoveryRuns(competitors) ==
    {perf \in UNION {WC_analyzeWipeoutContext(WC_round(WC_sort(competitors), round), round) :
                        round \in 1..3} :
        perf.wipeoutsInRound > 0}

\* the overview table with the rows of orders k and k + 1 exchanged
\* (k = 0: the rows in performance order)
FileOrder(competitors, k) ==
    [i \in 1..Len(competitors) |->
        IF k > 0 /\ i = k THEN competitors[k + 1]
        ELSE IF k > 0 /\ i = k + 1 THEN competitors[k]
        ELSE competitors[i]]

InitRecovery ==
    /\ \E profiles \in [1..MaxStartList -> RunProfiles], k \in 0..(MaxStartList - 1) :
          files = [f \in {ResultsCsv} |-> FileOrder(PC_competitors(profiles), k)]
    /\ rawScores = <<>>
    /\ dniMap = EmptyMap
    /\ out = NoOut
    /\ exit = NoOut
    /\ PanelIdle /\ ScorerIdle

\* WipeoutContextAnalyzer.run(): load and sort, organize by round, analyse
\* the three rounds, collect the recovery runs
WCRun ==
    /\ out = NoOut
    /\ out' = [op |-> "WipeoutContextAnalyzer.run",
               recoveryRuns |-> WC_recoveryRuns(files[ResultsCsv])]
    /\ UNCHANGED <<rawScores, dniMap, panelVars, scorerVars, fileVars>>

\* PositionControlledAnalyzer: loadCSV, then analyzeRecoveryByTier()
PCRun ==
    /\ ret = NoOut
    /\ ret' = [op |-> "PositionControlledAnalyzer.analyzeRecoveryByTier",
               call |-> PC_analyzeRecoveryByTier(files[ResultsCsv])]
    /\ UNCHANGED <<rawScores, dniMap, out, panelVars, trickCache, fileVars>>

NextRecovery ==
    \/ WCRun
    \/ PCRun

SpecRecovery == InitRecovery /\ [][NextRecovery]_vars

\* (competitor, round) is a recovery run of wipeout_context_analysis
RecoveryInWC(name, round) ==
    \E perf \in out.recoveryRuns : perf.competitor = name /\ perf.round = round

\* (competitor, round) is a recovery run of position_controlled_analysis
RecoveryInPC(name, round) ==
    \E tier \in {"bottom", "middle", "top"} :
       \E n \in DOMAIN ret.call.tiers[tier].recovery_runs :
          /\ ret.call.tiers[tier].recovery_runs[n].competitor = name
          /\ ret.call.tiers[tier].recovery_runs[n].round = round

\* C28: for the same overview table with distinct performance orders
\* 1..n, a clean run is a recovery run of wipeout_context_analysis exactly
\* when it is a recovery run of position_controlled_analysis, whatever the
\* order of the rows in the file
C28_SameRecoveryRuns ==
    (out # NoOut /\ ret # NoOut /\ ~ret.call.threw) =>
        \A i \in 1..Len(files[ResultsCsv]), round \in 1..3 :
            PC_isClean(RunOf(files[ResultsCsv][i], round)) =>
                (RecoveryInWC(files[ResultsCsv][i].name, round)
                 <=> RecoveryInPC(files[ResultsCsv][i].name, round))

\* the rows of orders 1 and 2 are exchanged in the file; the first rider
\* fell in round 1 and the second did not: the second rider's run is a
\* recovery run for wipeout_context_analysis only
C28_Witness ==
    /\ out # NoOut /\ ret # NoOut /\ ~ret.call.threw
    /\ files[ResultsCsv][1].performance_order = 2
    /\ files[ResultsCsv][2].performance_order = 1
    /\ RecoveryInWC(files[ResultsCsv][1].name, 1)
    /\ ~RecoveryInPC(files[ResultsCsv][1].name, 1)

(***************************************************************************)
(* SpecSeverity: the judge score fields of the scored runs, tallied per    *)
(* judge by each of the scripts.                                           *)
(*   panel    : the score fields of every scored run                       *)
(*   panelOut : the tallies returned                                       *)
(***************************************************************************)
\* scored runs in the loaded file
MaxScoredRuns == 2

\* Math.max(...scores.map(s => s.score))
MaxScore(scores) ==
    CHOOSE v \in {scores[i].score : i \in DOMAIN scores} :
        \A i \in DOMAIN scores : scores[i].score <= v

\* Math.min(...scores.map(s => s.score))
MinScore(scores) ==
    CHOOSE v \in {scores[i].score : i \in DOMAIN scores} :
        \A i \in DOMAIN scores : v <= scores[i].score

\* s.score === extreme && scores.filter(x => x.score === extreme).length === 1,
\* counted over the scores of judge j
AloneAt(scores, j, extreme) ==
    Cardinality({i \in DOMAIN scores :
                    /\ scores[i].judgeNum = j
                    /\ scores[i].score = extreme
                    /\ Cardinality({x \in DOMAIN scores : scores[x].score = extreme}) = 1})

\* what one run adds to the tallies of judge j: nothing when the run has
\* fewer than 6 judge scores
SeverityOfRun(scores, j) ==
    IF Len(scores) < 6 THEN [n |-> 0, exHigh |-> 0, exLow |-> 0]
    ELSE [n |-> Cardinality({i \in DOMAIN scores : scores[i].judgeNum = j}),
          exHigh |-> AloneAt(scores, j, MaxScore(scores)),
          exLow |-> AloneAt(scores, j, MinScore(scores))]

\* the tallies of the judges over the runs
SeverityTallies(runs) ==
    [j \in 1..NumJudges |->
        [n |-> SumSeq([k \in DOMAIN runs |->
                          SeverityOfRun(JA_getJudgeScores(runs[k]), j).n]),
         exHigh |-> SumSeq([k \in DOMAIN runs |->
                               SeverityOfRun(JA_getJudgeScores(runs[k]), j).exHigh]),
         exLow |-> SumSeq([k \in DOMAIN runs |->
                              SeverityOfRun(JA_getJudgeScores(runs[k]), j).exLow])]]

\* JudgingAnalyzer.analyzeQ3_JudgeSeverity: judgeStats (totalRuns,
\* excludedHigh, excludedLow)
JA_judgeSeverity(runs) == SeverityTallies(runs)

\* ReportGenerator.computeJudgeSeverity: judgeStats (n, exHigh, exLow)
RG_computeJudgeSeverity(runs) == SeverityTallies(runs)

\* InteractiveReport.computeSeverity: stats (exHigh, exLow)
IR_computeSeverity(runs) == SeverityTallies(runs)

\* the score fields of a scored run: all different, two judges at the top,
\* two at the bottom, all the same, one field empty
SeverityPanels ==
    {<<"89", "90", "91", "92", "93", "94">>,
     <<"94", "90", "91", "92", "93", "94">>,
     <<"89", "90", "89", "92", "93", "94">>,
     <<"91", "91", "91", "91", "91", "91">>,
     <<"89", "90", "", "92", "93", "94">>}

InitSeverity ==
    /\ \E n \in 1..MaxScoredRuns : panel \in [1..n -> SeverityPanels]
    /\ panelOut = NoOut
    /\ StatusIdle
    /\ ScorerIdle
    /\ FilesIdle

\* JudgingAnalyzer.analyzeQ3_JudgeSeverity()
JAAnalyzeQ3JudgeSeverity ==
    /\ panelOut = NoOut
    /\ panelOut' = [op |-> "JudgingAnalyzer.analyzeQ3_JudgeSeverity",
                    stats |-> JA_judgeSeverity(panel)]
    /\ UNCHANGED <<panel, statusVars, scorerVars, fileVars>>

\* ReportGenerator.computeJudgeSeverity()
RGComputeJudgeSeverity ==
    /\ panelOut = NoOut
    /\ panelOut' = [op |-> "ReportGenerator.computeJudgeSeverity",
                    stats |-> RG_computeJudgeSeverity(panel)]
    /\ UNCHANGED <<panel, statusVars, scorerVars, fileVars>>

\* InteractiveReport.computeSeverity(scored)
IRComputeSeverity ==
    /\ panelOut = NoOut
    /\ panelOut' = [op |-> "InteractiveReport.computeSeverity",
                    stats |-> IR_computeSeverity(panel)]
    /\ UNCHANGED <<panel, statusVars, scorerVars, fileVars>>

NextSeverity ==
    \/ JAAnalyzeQ3JudgeSeverity
    \/ RGComputeJudgeSeverity
    \/ IRComputeSeverity

SpecSeverity == InitSeverity /\ [][NextSeverity]_vars

\* the runs all of whose 6 score fields hold a number
RunsWithSixScores ==
    {k \in DOMAIN panel : \A j \in 1..NumJudges : ~ParseFloat(panel[k][j]).nan}

\* C30: every run with 6 judge scores adds exactly one excluded-high and
\* exactly one excluded-low count, so the excluded-high counts of the 6
\* judges add up to the number of runs counted, and so do the excluded-low
\* counts
C30_OneHighOneLowPerRun ==
    panelOut # NoOut =>
        /\ SumSeq([j \in 1..NumJudges |-> panelOut.stats[j].exHigh])
              = Cardinality(RunsWithSixScores)
        /\ SumSeq([j \in 1..NumJudges |-> panelOut.stats[j].exLow])
              = Cardinality(RunsWithSixScores)

\* a single run whose highest score was given by two judges has been
\* tallied: it is counted for every judge, and no judge has an
\* excluded-high count
C30_Witness ==
    /\ panelOut.op = "ReportGenerator.computeJudgeSeverity"
    /\ panel = <<<<"94", "90", "91", "92", "93", "94">>>>
    /\ \A j \in 1..NumJudges : panelOut.stats[j].n = 1 /\ panelOut.stats[j].exHigh = 0
    /\ panelOut.stats[2].exLow = 1

=============================================================================
